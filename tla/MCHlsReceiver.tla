--------------------------- MODULE MCHlsReceiver ---------------------------
(* Situations for HlsReceiver: live playlists of three segments that name  *)
(* them by absolute or relative uris, and whole lists played as VOD, with  *)
(* and without a range; segments begin every other tick.                   *)
EXTENDS HlsReceiver

EveryOther == [n \in 1..Segments |-> 2 * (n - 1)]

Live(uris) == [window |-> 3, closes |-> TRUE, uris |-> uris,
               vod |-> FALSE, start |-> 0, end |-> 0]
Whole(uris, from, to) == [window |-> 0, closes |-> FALSE, uris |-> uris,
                           vod |-> TRUE, start |-> from, end |-> to]
SomeSituations == {Live("absolute"), Live("relative"),
                   Whole("relative", 2, 8), Whole("absolute", 0, 0)}
=============================================================================
