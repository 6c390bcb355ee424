------------------------------- MODULE Policy -------------------------------
(***************************************************************************)
(* The policy in a deployment's annotations, and the durations in it       *)
(* (policy/policy.go).  An annotation is one of the values the code tells  *)
(* apart; "other" is any value it has no name for.                         *)
(***************************************************************************)
EXTENDS Integers

Absent == "absent"   \* no annotation, or a blank one; a blank mode or bootstrap-servers is "other"

\* The values each annotation may have.  "named" and "list" are a name and a list of names,
\* "positive" a duration that is not negative, nor zero where that has no meaning.
Accepted ==
    [mode        |-> {"auto", "off"},
     restart     |-> {Absent, "auto", "off"},
     idle        |-> {Absent, "job"},
     dryRun      |-> {Absent, "true", "false"},
     resumeFrom  |-> {Absent, "group-offsets"},
     sources     |-> {"list", "auto"},
     group       |-> {Absent, "named"},
     durations   |-> {Absent, "positive"},
     bootstrap   |-> {Absent}]

AnnotationKeys == DOMAIN Accepted

\* Policy.Problems: a value that is not accepted, and group offsets of no group.
Problems(ann) ==
    {k \in AnnotationKeys : ann[k] \notin Accepted[k]}
        \cup {k \in {"resumeFrom"} : ann[k] = "group-offsets" /\ ann.group = Absent}

\* Read; none when there is no mode.  A policy with problems is ours and not acted on.
ReadPolicy(ann, none) ==
    IF ann.mode = Absent THEN none
    ELSE [mode            |-> IF ann.mode = "off" THEN "off" ELSE "auto",
          restart         |-> ann.restart # "off",
          consumerGroup   |-> ann.group # Absent,
          idleFromJob     |-> ann.idle = "job",
          resumeFromGroup |-> ann.resumeFrom = "group-offsets",
          sourcesAuto     |-> ann.sources = "auto",
          dryRun          |-> ann.dryRun = "true",
          valid           |-> Problems(ann) = {}]
----------------------------------------------------------------------------
(* parseDuration, for a value with a day count: hours is what              *)
(* time.ParseDuration makes of the day count read as hours, rest of what   *)
(* follows it.  Durations have a width: 0 - max - 1 .. max.                *)

\* What is left of an integer in a Duration.
Wrap(max, n) == ((n + max + 1) % (2 * (max + 1))) - (max + 1)

NotADuration == "not a duration"

ParseDays(max, negative, hours, rest) ==
    LET day == Wrap(max, 24 * hours)
        sum == Wrap(max, day + rest)
    IN  IF hours > max \div 24 \/ rest < 0 \/ rest > Wrap(max, max - day) THEN NotADuration
        ELSE IF negative THEN Wrap(max, 0 - sum) ELSE sum
----------------------------------------------------------------------------
\* A duration with a day count is exactly what it says or not a duration at all: the product and
\* the sum never wrap around, and nothing that fits is refused (parseDuration).
DaysAreExact(max, negative, hours, rest) ==
    ParseDays(max, negative, hours, rest) =
        IF rest < 0 \/ 24 * hours + rest > max THEN NotADuration
        ELSE IF negative THEN 0 - (24 * hours + rest) ELSE 24 * hours + rest
=============================================================================
