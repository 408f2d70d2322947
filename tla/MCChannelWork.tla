---------------------------- MODULE MCChannelWork ----------------------------
(* Instances of ChannelWork for TLC.                                        *)
EXTENDS ChannelWork

OneOfTwo    == <<1, 1>>   \* two deliveries of one message
OneOfOne    == <<1>>
EachItsOwn  == <<1, 2>>
OneEach     == <<1, 1>>
Two         == <<2>>
Here        == <<"a">>
HereAndHere == <<"a", "a">>
=============================================================================
