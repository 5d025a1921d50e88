---------------------------- MODULE MCFcachePush ----------------------------
(* Requests of every kind for a file of four bytes: of the ranges, one ends  *)
(* inside a block and one goes past the end of the file.                     *)
EXTENDS FcachePush

Get == [method |-> "GET", uri |-> "file", range |-> "suffix", begin |-> 0, end |-> 2,
        since |-> "absent", file |-> "completed"]

MCRequests ==
  {[Get EXCEPT !.method = "other"], [Get EXCEPT !.uri = "status"],
   [Get EXCEPT !.uri = "noparams"], [Get EXCEPT !.range = "many"],
   [Get EXCEPT !.range = "garbage"], [Get EXCEPT !.file = "missing"],
   [Get EXCEPT !.since = "nodate"], [Get EXCEPT !.method = "HEAD"],
   [Get EXCEPT !.file = "uncompleted"], Get,
   [Get EXCEPT !.range = "closed", !.begin = 2, !.end = 1],
   [Get EXCEPT !.range = "closed", !.begin = 3, !.end = 4]}
=============================================================================
