--------------------------- MODULE MCSoundTrigger ---------------------------
(***************************************************************************)
(* SoundTrigger for TLC: the framework and the audio HAL with a thread     *)
(* each, beside readers and the callback thread, and one uevent that may   *)
(* wait while the callback thread is busy with another.                    *)
(***************************************************************************)
EXTENDS SoundTrigger

\* Both models, of which one captures what was said, and nothing fails.
MCSound == [used |-> Models, badPcms |-> FALSE, faults |-> FALSE]

\* One model, with PCMs that fail to open.
MCBadPcms == [used |-> {"hotword"}, badPcms |-> TRUE, faults |-> FALSE]

\* And with mixer controls that fail and a notice that falls into the calls of others.
MCFaulty == [used |-> {"hotword"}, badPcms |-> TRUE, faults |-> TRUE]

MCWorlds == {MCSound, MCBadPcms, MCFaulty}
MCSoundOnly == {MCSound}
=============================================================================
