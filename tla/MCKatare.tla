------------------------------ MODULE MCKatare ------------------------------
(* Instances of Katare for TLC: bodies with line ends and status lines inside. *)
EXTENDS Katare

MCJobs == {<<"text", "archive">>, <<"archive", "text">>, <<"kalit", "kango">>}
LookAlike == <<Words(Plain(TRUE)), CR, LF>>
MCBodies == {<<>>, <<Data>>, <<Data, CR, LF>>, LookAlike}
MCCaps == {0, 2}
=============================================================================
