------------------------------ MODULE MCTouch ------------------------------
\* Instances of Touch: a queue of one page more in one revision than in the other, and
\* lists of rooms of which one fits a page.
EXTENDS Touch

MCRoomLists == {<<"a", "b">>, <<"b">>}
MCLength    == [r \in {"r1", "r2"} |-> IF r = "r1" THEN 2 ELSE 1]
MCFirst     == {[rooms |-> <<"a", "b">>, track |-> "t1", rev |-> "r1"]}

\* One room, one track, one queue of two pages.
MCOneRoom   == {<<"a">>}
MCTwoPages  == [r \in {"r1"} |-> 2]
MCFirstRoom == {[rooms |-> <<"a">>, track |-> "t1", rev |-> "r1"]}

\* A user who opens views and taps, without cancelled gestures.
Taps    == Press \/ NoFinger \/ Show \/ Render \/ Environment
TapSpec == Init /\ [][Taps]_vars /\ Fairness
=============================================================================
