---------------------------- MODULE MCMemoryQueue ----------------------------
(* Instances of MemoryQueue for TLC.                                        *)
EXTENDS MemoryQueue

CONSTANT h1

WriteThenForget == <<{"upsert"}, {"forget"}>>
WriteThenAny    == <<{"upsert"}, {"forget", "verify", "rebuild"}>>
=============================================================================
