------------------------------- MODULE MCHttp -------------------------------
(***************************************************************************)
(* The functions of http.c for TLC.  A state is an argument of one of      *)
(* them: the text of a request, which grows, or the path of a file.        *)
(***************************************************************************)
EXTENDS HttpParse, ContentType

HttpInit == Init /\ path \in Paths \cup {NoPath}

HttpNext == path = NoPath /\ Arrive /\ UNCHANGED path

HttpSpec == HttpInit /\ [][HttpNext]_<<vars, path>>
=============================================================================
