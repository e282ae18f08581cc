----------------------------- MODULE FieldFile -----------------------------
(***************************************************************************)
(* The machine's markcfg0 (field.rs), shared by the processes that load    *)
(* it, change factors and save them: dbk2jp's `field`, and Python programs *)
(* with a Field.  There is no lock: load_or_create() looks for the file    *)
(* before it writes one, and save() reads the file, truncates it and       *)
(* writes it whole, each a step of its own here.  A process may die and a  *)
(* call may fail at any of them.                                           *)
(*                                                                         *)
(* A file is what from_markcfg() makes of it -- its factors, with the      *)
(* defaults for those that are missing or do not parse -- and whether it   *)
(* still has the lines this library does not read.                         *)
(***************************************************************************)
EXTENDS FieldGeometry

CONSTANTS
  Procs,     \* the processes
  Factors,   \* the factors a field can have
  Blank,     \* from_markcfg() of an empty file
  Starts,    \* what load_or_create() may be told to write
  Points,    \* points in millimetres, for RoundTrips
  Absent,    \* no file
  Empty,     \* a file just opened, or cut short at once
  None       \* no field

Pairs == Int \X Int
ASSUME FactorsAssumption ==
  Factors \subseteq
    [size : Nat, offset : Pairs, aspect : Pairs, negate : BOOLEAN \X BOOLEAN,
     swap : BOOLEAN, fine : BOOLEAN]
ASSUME BlankAssumption  == Blank \in Factors /\ Starts \subseteq Factors
(* A factor finer than seven digits loses the rest in the file.            *)
Printed(f) == [f EXCEPT !.fine = FALSE]
ASSUME PrintedAssumption == \A f \in Factors : Printed(f) \in Factors
ASSUME PointsAssumption  == Points \subseteq Pairs

Texts == [factors : Factors, others : BOOLEAN]
ASSUME NoneAssumption ==
  None \notin Factors /\ Absent \notin Texts /\ Empty \notin Texts /\ Absent # Empty

VARIABLES
  file,      \* Absent, Empty, or what is in it
  pc,        \* the step each process is at
  held,      \* the field it holds
  out,       \* the factors it is writing
  seen,      \* did the save in progress read the other lines?
  making,    \* is it load_or_create()'s save?
  created,   \* what the field says of that
  last,      \* history: the factors that the file should have
  unsure,    \* history: has it them?  Not after a save cut short or mixed
  early,     \* history: had nobody saved any, when this call looked?
  kept,      \* history: had the file other lines to keep?
  mishaps    \* history: what has gone wrong so far

own     == <<held, out, seen, making, created>>
history == <<last, unsure, early, kept, mishaps>>
vars    == <<file, pc, own, history>>

Mishaps == {"cut", "overlap", "unread", "unseen"}

(* Mutants of Parsed: no defaults; the numbers as save() prints them do    *)
(* not parse.                                                              *)
ParsedBare(f) == IF f = Empty THEN Empty ELSE f.factors
ParsedDefaults(f) == Blank

(* from_markcfg(), and the lines save() would carry over.                  *)
Parsed(f) == IF f = Empty THEN Blank ELSE f.factors
Others(f) == f \in Texts /\ f.others

Init ==
  /\ file \in {Absent} \cup {t \in Texts : t.factors = Printed(t.factors)}
  /\ pc = [p \in Procs |-> "idle"]
  /\ held = [p \in Procs |-> None] /\ out = [p \in Procs |-> Blank]
  /\ seen = [p \in Procs |-> FALSE] /\ making = [p \in Procs |-> FALSE]
  /\ created = [p \in Procs |-> FALSE]
  /\ last = (IF file = Absent THEN None ELSE file.factors)
  /\ early = [p \in Procs |-> FALSE]
  /\ kept = Others(file) /\ unsure = FALSE /\ mishaps = {}

At(p, step)  == pc[p] = step
Goto(p, step) == pc' = [pc EXCEPT ![p] = step]
(* The locals of a call that has ended are nobody's.                       *)
Forget(p) ==
  /\ out' = [out EXCEPT ![p] = Blank] /\ seen' = [seen EXCEPT ![p] = FALSE]
  /\ making' = [making EXCEPT ![p] = FALSE] /\ early' = [early EXCEPT ![p] = FALSE]
Shared(p)    == \E q \in Procs \ {p} : pc[q] = "put"
Mark(p)      == IF Shared(p) THEN {"overlap"} ELSE {}

-----------------------------------------------------------------------------
(* load_or_create() and from_markcfg().                                    *)
CallCreate(p) ==
  /\ At(p, "idle") /\ Goto(p, "stat")
  /\ \E f \in Starts : out' = [out EXCEPT ![p] = f]
  /\ UNCHANGED <<file, held, seen, making, created, history>>

(* It looks, and notes (history) whether anybody has saved before.         *)
Look(p) ==
  /\ At(p, "stat")
  /\ early' = [early EXCEPT ![p] = (last = None)]
  /\ UNCHANGED <<file, held, out, seen, created, last, unsure, kept>>

(* Mutants of Stat: the field is called created whichever way it went; the *)
(* file is not looked for at all.                                          *)
StatCreated(p) ==
  /\ Look(p) /\ Goto(p, IF file = Absent THEN "read" ELSE "load")
  /\ making' = [making EXCEPT ![p] = TRUE] /\ UNCHANGED mishaps
StatUnchecked(p) ==
  /\ Look(p) /\ Goto(p, "read")
  /\ making' = [making EXCEPT ![p] = TRUE] /\ UNCHANGED mishaps

(* Any error of metadata() is taken for a missing file.                    *)
Stat(p) ==
  /\ Look(p)
  /\ \E missing \in {file = Absent, TRUE} :
       /\ Goto(p, IF missing THEN "read" ELSE "load")
       /\ making' = [making EXCEPT ![p] = missing]
       /\ mishaps' = mishaps \cup (IF missing /\ file # Absent THEN {"unseen"} ELSE {})

CallLoad(p) ==
  /\ At(p, "idle") /\ Goto(p, "load")
  /\ making' = [making EXCEPT ![p] = FALSE]
  /\ UNCHANGED <<file, held, out, seen, created, history>>

Load(p) ==
  /\ At(p, "load") /\ Goto(p, "idle")
  /\ \/ /\ file # Absent
        /\ held' = [held EXCEPT ![p] = Parsed(file)]
        /\ created' = [created EXCEPT ![p] = making[p]]
     \/ held' = [held EXCEPT ![p] = None] /\ created' = [created EXCEPT ![p] = FALSE]
  /\ Forget(p)
  /\ UNCHANGED <<file, last, unsure, kept, mishaps>>

(* The factors change only to a field that validates.                      *)
Set(p) ==
  /\ At(p, "idle") /\ held[p] # None
  /\ \E f \in Factors : Valid(f) /\ held' = [held EXCEPT ![p] = f]
  /\ UNCHANGED <<file, pc, out, seen, making, created, history>>

-----------------------------------------------------------------------------
(* save().                                                                 *)
CallSave(p) ==
  /\ At(p, "idle") /\ held[p] # None /\ Goto(p, "read")
  /\ out' = [out EXCEPT ![p] = held[p]] /\ making' = [making EXCEPT ![p] = FALSE]
  /\ UNCHANGED <<file, held, seen, created, history>>

(* A file that cannot be read counts as one without lines.                 *)
Read(p) ==
  /\ At(p, "read") /\ Goto(p, "open")
  /\ \/ seen' = [seen EXCEPT ![p] = Others(file)] /\ mishaps' = mishaps \cup Mark(p)
     \/ /\ file # Absent
        /\ seen' = [seen EXCEPT ![p] = FALSE]
        /\ mishaps' = mishaps \cup Mark(p) \cup {"unread"}
  /\ UNCHANGED <<file, held, out, making, created, last, unsure, early, kept>>

(* Opening truncates, and creates.                                         *)
Open(p) ==
  /\ At(p, "open") /\ Goto(p, "put")
  /\ file' = Empty /\ mishaps' = mishaps \cup Mark(p)
  /\ UNCHANGED <<own, last, unsure, early, kept>>

OpenFails(p) ==
  /\ At(p, "open") /\ Goto(p, "idle")
  /\ IF making[p] THEN held' = [held EXCEPT ![p] = None]
                       /\ created' = [created EXCEPT ![p] = FALSE]
                  ELSE UNCHANGED <<held, created>>
  /\ Forget(p)
  /\ UNCHANGED <<file, last, unsure, kept, mishaps>>

(* Mutant of Whole: only the library's own keys are written.               *)
WholeOwn(p) == [factors |-> Printed(out[p]), others |-> FALSE]

Whole(p) == [factors |-> Printed(out[p]), others |-> seen[p]]

(* Over the text of another writer, the end of that may remain.            *)
Mixtures(p) ==
  IF file = Empty THEN {Whole(p)}
  ELSE [factors : Factors, others : {seen[p], seen[p] \/ Others(file)}]

(* load_or_create() goes on to load what it has written.                   *)
Finish(p) == IF making[p] THEN "load" ELSE "idle"

Put(p) ==
  /\ At(p, "put") /\ Goto(p, Finish(p))
  /\ file' \in Mixtures(p)
  /\ last' = Printed(out[p]) /\ unsure' = (file # Empty \/ Shared(p))
  /\ IF making[p] THEN UNCHANGED <<out, seen, making, early>> ELSE Forget(p)
  /\ UNCHANGED <<held, created, kept, mishaps>>

(* The text is cut short: a prefix of it is left.                          *)
Cut(p) ==
  /\ file' \in {Empty} \cup [factors : Factors, others : {FALSE, seen[p]}]
  /\ unsure' = TRUE /\ mishaps' = mishaps \cup {"cut"}
  /\ UNCHANGED <<last, kept>>

PutFails(p) ==
  /\ At(p, "put") /\ Goto(p, "idle") /\ Cut(p)
  /\ IF making[p] THEN held' = [held EXCEPT ![p] = None]
                       /\ created' = [created EXCEPT ![p] = FALSE]
                  ELSE UNCHANGED <<held, created>>
  /\ Forget(p)

(* A process ends, at any step.                                            *)
Crash(p) ==
  /\ Goto(p, "idle")
  /\ held' = [held EXCEPT ![p] = None] /\ created' = [created EXCEPT ![p] = FALSE]
  /\ IF At(p, "put") THEN Cut(p) ELSE UNCHANGED <<file, last, unsure, kept, mishaps>>
  /\ Forget(p)

Step(p) ==
  \/ CallCreate(p) \/ Stat(p) \/ CallLoad(p) \/ Load(p) \/ Set(p)
  \/ CallSave(p) \/ Read(p) \/ Open(p) \/ OpenFails(p) \/ Put(p) \/ PutFails(p)
  \/ Crash(p)

Next == \E p \in Procs : Step(p)
Spec == Init /\ [][Next]_vars
-----------------------------------------------------------------------------
Steps == {"idle", "stat", "load", "read", "open", "put"}

TypeOK ==
  /\ file \in {Absent, Empty} \cup Texts
  /\ pc \in [Procs -> Steps]
  /\ held \in [Procs -> Factors \cup {None}] /\ out \in [Procs -> Factors]
  /\ seen \in [Procs -> BOOLEAN] /\ making \in [Procs -> BOOLEAN]
  /\ created \in [Procs -> BOOLEAN]
  /\ last \in Factors \cup {None} /\ unsure \in BOOLEAN
  /\ early \in [Procs -> BOOLEAN]
  /\ kept \in BOOLEAN /\ mishaps \subseteq Mishaps

Quiet == \A p \in Procs : pc[p] # "put"

(* field.rs: save() preserves the keys this library ignores.  They are     *)
(* lost only when a save is cut short, when its read fails, or when two    *)
(* processes' saves overlap -- not when a default is saved over a file     *)
(* that was there after all.                                               *)
ForeignKept ==
  Quiet /\ kept /\ mishaps \subseteq {"unseen"} => Others(file)

(* A load that no save overlaps gives the factors of the last save that    *)
(* was not cut short or mixed, as the file can print them.                 *)
LoadsTheSaved ==
  [][\A p \in Procs :
       pc[p] = "load" /\ pc'[p] = "idle" /\ held'[p] # None /\ Quiet /\ ~unsure
         => held'[p] = last]_vars

(* load_or_create() ends its save, or returns a field with `created' set.  *)
WritesDefault(p) == pc[p] = "put" /\ making[p] /\ pc'[p] = "load"
IsTold(p)        == pc[p] = "load" /\ pc'[p] = "idle" /\ created'[p]

(* API.md: field.created says which happened.  While looking itself works, *)
(* only a process that looked before anybody had saved factors writes the  *)
(* default, or is told it did: of two that are told so both looked before  *)
(* either wrote, and a save that a default replaces came after the look.   *)
CreatedOnce ==
  [][\A p \in Procs :
       WritesDefault(p) \/ IsTold(p) => early[p] \/ "unseen" \in mishaps]_vars

(* A field that is held and validates, with any of its axes mirrored or    *)
(* swapped, takes a point to counts and the counts back to the point, to   *)
(* within half a count, whenever the point is in the field; and clamping   *)
(* changes only points that are not.                                       *)
Turned(f, n, s) == [f EXCEPT !.negate = n, !.swap = s]

ComesBack(f, at) ==
  LET counts == ToCounts(f, at, FALSE)
  IN  counts # Outside => Near(f, at, counts) /\ counts = ToCounts(f, at, TRUE)

Faithful ==
  {f \in Factors :
     \A n \in BOOLEAN \X BOOLEAN, s \in BOOLEAN, at \in Points : ComesBack(Turned(f, n, s), at)}

RoundTrips == \A p \in Procs : held[p] # None /\ Valid(held[p]) => held[p] \in Faithful
=============================================================================
