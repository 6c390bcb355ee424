------------------------------ MODULE MCSiesta ------------------------------
(***************************************************************************)
(* Values for the constants of Siesta, chosen by the .cfg files.           *)
(***************************************************************************)
EXTENDS SiestaProperties, Policy

\* mode: auto, restart: off and a written list of sources, nothing else asked for.
Annotated == [mode |-> "auto", restart |-> "off", idle |-> Absent, dryRun |-> Absent,
              resumeFrom |-> Absent, sources |-> "list", group |-> Absent,
              durations |-> "positive", bootstrap |-> Absent]

With(ann) == ReadPolicy(ann, NoPolicy)

Plain      == With(Annotated)
Group      == With([Annotated EXCEPT !.group = "named"])
AskJob     == With([Annotated EXCEPT !.idle = "job"])
FromGroup  == With([Annotated EXCEPT !.group = "named", !.resumeFrom = "group-offsets"])
AutoSource == With([Annotated EXCEPT !.sources = "auto"])
AutoGroup  == With([Annotated EXCEPT !.sources = "auto", !.group = "named"])
Off        == With([Annotated EXCEPT !.mode = "off"])
Dry        == With([Annotated EXCEPT !.group = "named", !.dryRun = "true"])
Invalid    == With([Annotated EXCEPT !.resumeFrom = "group-offsets"])
Restarting == With([Annotated EXCEPT !.restart = Absent])

\* The durations of a small width.
ASSUME SmallDurations ==
    \A max \in {0, 23, 24, 25, 63}, negative \in BOOLEAN :
        \A hours \in 0..max, rest \in (0 - max - 1)..max :
            DaysAreExact(max, negative, hours, rest)

OnlyGroup      == {Group}
OnlyRestarting == {Restarting}
Sleepers       == {Group, AskJob, AutoGroup, FromGroup}
Anything       == {Plain, Off, Invalid, AutoSource, Dry}

AllButState    == {"spec", "policy", "memory", "nonce"}
StateEditors   == {"state"}
MemoryLosers   == {"memory"}
SpecEditors    == {"spec"}
NoOne          == {}

AnyMode     == {"savepoint", "stateless"}
KeepsState  == {"savepoint"}
NoNonces    == {}
HandWritten == {1}
NoOutcomes  == {}
FailedOnly  == {[lifecycle |-> "FAILED", job |-> "FAILED", unrecoverable |-> FALSE]}
AnyFailure  == FailedOnly \cup
               {[lifecycle |-> "FAILED", job |-> "FAILED", unrecoverable |-> TRUE],
                [lifecycle |-> "STABLE", job |-> "RESTARTING", unrecoverable |-> FALSE]}
=============================================================================
