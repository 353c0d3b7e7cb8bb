------------------------------- MODULE Require -------------------------------
(***************************************************************************)
(* The require function of startup.js: a cache of modules, filled while    *)
(* the modules it loads run, which require others, themselves included.    *)
(*                                                                         *)
(* An entry of the cache is known by its number, in the order they were    *)
(* made; 0 is no entry.  The exports of an entry are an object of its own. *)
(***************************************************************************)
EXTENDS Integers, Sequences

CONSTANTS
  Ids,        \* what programs require
  Inherited,  \* the names every object inherits from Object.prototype
  MaxEntries  \* bound: the entries made

ASSUME InheritedAssumption == Inherited \subseteq Ids
ASSUME MaxEntriesAssumption == MaxEntries \in Nat

VARIABLES
  cached,   \* the variable cached: the entry of each id
  entries,  \* history: for every entry made, its id and what became of it
  running,  \* the entries whose files run, the innermost last
  held,     \* history: <<m, e>> when m, or the main program 0, got the exports of e
  answer    \* what the last call of require returned

vars == <<cached, entries, running, held, answer>>

(* A file that runs ends or throws; one that cannot be read or has no      *)
(* syntax never runs.                                                      *)
Fates == {"running", "complete", "failed", "unread"}
Answers == {"none", "exports", "undefined", "threw"}

Entries == DOMAIN entries
New == Len(entries) + 1
IdOf(e) == entries[e].id
Fate(e) == entries[e].fate
Top == running[Len(running)]
Requirer == IF running = <<>> THEN 0 ELSE Top
Popped == SubSeq(running, 1, Len(running) - 1)

Gives(kind, e) == answer' = [kind |-> kind, entry |-> e]
GivesExports(m, e) == Gives("exports", e) /\ held' = held \cup {<<m, e>>}

Init ==
  /\ cached = [id \in Ids |-> 0]
  /\ entries = <<>> /\ running = <<>> /\ held = {}
  /\ answer = [kind |-> "none", entry |-> 0]

\* cached is an object as any other: it has the properties of Object.prototype.
RequireInherited(id) ==
  /\ id \in Inherited
  /\ Gives("undefined", 0)
  /\ UNCHANGED <<cached, entries, running, held>>

RequireCached(id) ==
  /\ id \notin Inherited /\ cached[id] # 0
  /\ GivesExports(Requirer, cached[id])
  /\ UNCHANGED <<cached, entries, running>>

\* The entry is made before the file is read.
MakesEntryMutant(id, fate) ==
  /\ id \notin Inherited /\ cached[id] = 0 /\ New <= MaxEntries
  /\ entries' = Append(entries, [id |-> id, fate |-> fate])
  /\ UNCHANGED cached
MakesEntry(id, fate) ==
  /\ id \notin Inherited /\ cached[id] = 0 /\ New <= MaxEntries
  /\ entries' = Append(entries, [id |-> id, fate |-> fate])
  /\ cached' = [cached EXCEPT ![id] = New]

\* read or eval throws, outside the try statement.
CannotLoad(id) ==
  /\ MakesEntry(id, "unread")
  /\ Gives("threw", 0)
  /\ UNCHANGED <<running, held>>

\* The file runs, and has its exports as an argument.
Loads(id) ==
  /\ MakesEntry(id, "running")
  /\ running' = Append(running, New)
  /\ held' = held \cup {<<New, New>>}
  /\ Gives("none", 0)

\* The rest of require looks the entry up again.
BodyEnds ==
  /\ running # <<>>
  /\ entries' = [entries EXCEPT ![Top].fate = "complete"]
  /\ running' = Popped
  /\ LET e == cached[IdOf(Top)]
         m == IF Popped = <<>> THEN 0 ELSE Popped[Len(Popped)]
     IN IF e = 0 THEN Gives("threw", 0) /\ UNCHANGED held ELSE GivesExports(m, e)
  /\ UNCHANGED cached

BodyThrowsKeeps ==
  /\ running # <<>>
  /\ entries' = [entries EXCEPT ![Top].fate = "failed"]
  /\ running' = Popped
  /\ Gives("threw", 0)
  /\ UNCHANGED <<cached, held>>
BodyThrowsClears ==
  /\ running # <<>>
  /\ entries' = [entries EXCEPT ![Top].fate = "failed"]
  /\ cached' = [id \in Ids |-> 0]
  /\ running' = Popped
  /\ Gives("threw", 0)
  /\ UNCHANGED held
BodyThrows ==
  /\ running # <<>>
  /\ entries' = [entries EXCEPT ![Top].fate = "failed"]
  /\ cached' = [cached EXCEPT ![IdOf(Top)] = 0]
  /\ running' = Popped
  /\ Gives("threw", 0)
  /\ UNCHANGED held

Next ==
  \/ \E id \in Ids : RequireInherited(id) \/ RequireCached(id) \/ CannotLoad(id) \/ Loads(id)
  \/ BodyEnds
  \/ BodyThrows

Spec == Init /\ [][Next]_vars

-----------------------------------------------------------------------------
TypeOK ==
  /\ cached \in [Ids -> Nat]
  /\ entries \in Seq([id : Ids, fate : Fates])
  /\ running \in Seq(Nat \ {0})
  /\ held \subseteq Nat \X Nat
  /\ answer \in [kind : Answers, entry : Nat]

\* A file runs once to its end, and is not run again while it runs: the files
\* running are as many as there are ids, and an id has one entry that has not
\* thrown, the one in the cache (startup.js 355-370).
LoadedOnce ==
  /\ \A i, j \in DOMAIN running : i # j => IdOf(running[i]) # IdOf(running[j])
  /\ \A e, f \in Entries :
       (IdOf(e) = IdOf(f) /\ Fate(e) # "failed" /\ Fate(f) # "failed") => e = f

\* Whatever requires whatever meanwhile, the end of require finds the entry it
\* made, and never takes a property of undefined (startup.js 372).
EntryStillThere == \A i \in DOMAIN running : cached[IdOf(running[i])] = running[i]

\* What require returns is the exports of a module that has not thrown: one that
\* ended, runs, or could not be read (startup.js 373).
AnswersLive == answer.kind = "exports" => Fate(answer.entry) # "failed"

\* The exports of a module that throws are left with itself and with modules
\* loaded while it ran, and never with the main program or a module that had
\* begun before: those get another object (startup.js 367-369).
DeadExportsInside ==
  \A h \in held : Fate(h[2]) = "failed" => h[2] <= h[1]

\* A module that has ended stays in the cache for ever: every later require of it
\* returns the same object (startup.js 354-355, 368).
CompleteForEver ==
  [][\A e \in Entries : Fate(e) = "complete" =>
       Fate(e)' = "complete" /\ cached'[IdOf(e)] = e]_vars
=============================================================================
