---------------------------- MODULE MCSourceSync ----------------------------
(* Small instances of SourceSync for TLC. *)
EXTENDS SourceSync, TLC

CONSTANT r1

\* The folder connector lists all or reports changes, and knows its disk; the
\* plainest connector of the SDK lists all and says nothing of itself.
MCFolder  == {[delta |-> TRUE, identity |-> TRUE]}
MCUnnamed == {[delta |-> TRUE, identity |-> FALSE]}
MCPlain   == {[delta |-> FALSE, identity |-> FALSE]}
MCEither  == MCFolder \cup MCPlain
MCAny     == [delta : BOOLEAN, identity : BOOLEAN]
=============================================================================
