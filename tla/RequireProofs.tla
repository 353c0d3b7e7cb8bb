---------------------------- MODULE RequireProofs ----------------------------
(***************************************************************************)
(* The cache of require, for any ids and any number of modules: its        *)
(* inductive invariant, and what follows from it.                          *)
(***************************************************************************)
EXTENDS Require, TLAPS

\* The cache holds the one entry of an id that has not thrown.
CacheIsLive ==
  /\ \A id \in Ids : cached[id] # 0 =>
       cached[id] \in Entries /\ entries[cached[id]].id = id /\ entries[cached[id]].fate # "failed"
  /\ \A e \in Entries : entries[e].fate # "failed" => cached[entries[e].id] = e

\* The files running are those begun and not ended, in the order they began.
RunningNests ==
  /\ \A i \in DOMAIN running : running[i] \in Entries /\ entries[running[i]].fate = "running"
  /\ \A i, j \in DOMAIN running : i < j => running[i] < running[j]
  /\ \A e \in Entries : entries[e].fate = "running" => \E i \in DOMAIN running : running[i] = e

\* Exports whose module may yet throw are held by modules begun no earlier.
HeldInside ==
  \A h \in held : /\ h[2] \in Entries
                  /\ entries[h[2]].fate \in {"running", "failed"} => h[2] <= h[1]

AnswerKnown == answer.kind = "exports" => answer.entry \in Entries /\ entries[answer.entry].fate # "failed"

IInv == TypeOK /\ CacheIsLive /\ RunningNests /\ HeldInside /\ AnswerKnown

-----------------------------------------------------------------------------
\* The elements of a sequence, and a sequence with one of them replaced.
LEMMA SeqElement ==
  ASSUME NEW S, NEW q \in Seq(S), NEW i \in DOMAIN q
  PROVE  q[i] \in S /\ i \in Nat \ {0}
  OBVIOUS

LEMMA SeqReplaced ==
  ASSUME NEW S, NEW q \in Seq(S), NEW i \in DOMAIN q, NEW v \in S
  PROVE  /\ [q EXCEPT ![i] = v] \in Seq(S)
         /\ DOMAIN [q EXCEPT ![i] = v] = DOMAIN q
  OBVIOUS

\* What an entry is made of.
LEMMA EntryTyped ==
  ASSUME TypeOK, NEW e \in Entries
  PROVE  entries[e] \in [id : Ids, fate : Fates] /\ e \in Nat \ {0}
  <1>1. entries \in Seq([id : Ids, fate : Fates]) /\ e \in DOMAIN entries
    BY DEF TypeOK, Entries
  <1> QED BY <1>1, SeqElement

\* The innermost file is the one begun last of those running.
LEMMA TopIsLatest ==
  ASSUME IInv, running # <<>>
  PROVE  /\ Top \in Entries /\ entries[Top].fate = "running" /\ Top \in Nat \ {0}
         /\ \A e \in Entries : entries[e].fate = "running" => e <= Top
         /\ cached[entries[Top].id] = Top /\ entries[Top].id \in Ids
  <1>1. Len(running) \in DOMAIN running
    BY DEF IInv, TypeOK
  <1>2. Top \in Entries /\ entries[Top].fate = "running" /\ Top \in Nat \ {0}
    BY <1>1 DEF IInv, TypeOK, RunningNests, Top
  <1>3. \A e \in Entries : entries[e].fate = "running" => e <= Top
    <2> SUFFICES ASSUME NEW e \in Entries, entries[e].fate = "running" PROVE e <= Top
      OBVIOUS
    <2>1. PICK i \in DOMAIN running : running[i] = e
      BY DEF IInv, RunningNests
    <2>2. i \in 1..Len(running) /\ Len(running) \in Nat
      BY DEF IInv, TypeOK
    <2>3. CASE i = Len(running)
      BY <2>1, <2>3, <1>2 DEF Top
    <2>4. CASE i < Len(running)
      BY <2>1, <2>4, <1>1, <1>2, EntryTyped DEF IInv, RunningNests, Top
    <2> QED BY <2>2, <2>3, <2>4
  <1>4. cached[entries[Top].id] = Top
    BY <1>2 DEF IInv, CacheIsLive
  <1>5. entries[Top].id \in Ids
    BY <1>2, EntryTyped DEF IInv
  <1> QED BY <1>2, <1>3, <1>4, <1>5

\* The invariant holds at the start.
LEMMA InitIInv == Init => IInv
  BY DEF Init, IInv, TypeOK, CacheIsLive, RunningNests, HeldInside, AnswerKnown,
         Entries, Answers, Fates

\* A call answered from the cache gives the exports of a live entry to the
\* innermost file, begun after any other.
LEMMA CachedStep ==
  ASSUME IInv, NEW id \in Ids, RequireCached(id)
  PROVE  IInv'
  <1> DEFINE e == cached[id]
  <1>1. e \in Entries /\ entries[e].fate # "failed" /\ e \in Nat
    BY DEF RequireCached, IInv, CacheIsLive, TypeOK
  <1>2. Requirer \in Nat /\ (entries[e].fate = "running" => e <= Requirer)
    <2>1. CASE running = <<>>
      BY <2>1, <1>1 DEF IInv, RunningNests, Requirer
    <2>2. CASE running # <<>>
      BY <2>2, <1>1, TopIsLatest DEF Requirer
    <2> QED BY <2>1, <2>2
  <1>3. held' = held \cup {<<Requirer, e>>} /\ answer' = [kind |-> "exports", entry |-> e]
    BY DEF RequireCached, GivesExports, Gives
  <1>4. TypeOK'
    BY <1>1, <1>2, <1>3 DEF RequireCached, IInv, TypeOK, Answers
  <1>5. HeldInside'
    <2> SUFFICES ASSUME NEW h \in held'
                 PROVE  h[2] \in Entries /\ (entries[h[2]].fate \in {"running", "failed"} => h[2] <= h[1])
      BY DEF HeldInside, RequireCached, Entries, Fate
    <2>1. CASE h \in held
      BY <2>1 DEF IInv, HeldInside
    <2>2. CASE h = <<Requirer, e>>
      BY <2>2, <1>1, <1>2
    <2> QED BY <2>1, <2>2, <1>3
  <1>6. (CacheIsLive /\ RunningNests)'
    BY DEF RequireCached, IInv, CacheIsLive, RunningNests, Entries, IdOf, Fate
  <1>7. AnswerKnown'
    BY <1>1, <1>3 DEF RequireCached, AnswerKnown, Entries, Fate
  <1> QED BY <1>4, <1>5, <1>6, <1>7 DEF IInv

\* A new entry disturbs no other, and its id had none in the cache.
LEMMA MakesEntryStep ==
  ASSUME IInv, NEW id \in Ids, NEW fate \in {"running", "unread"}, MakesEntry(id, fate)
  PROVE  /\ Entries' = Entries \cup {New} /\ New \notin Entries /\ New \in Nat \ {0}
         /\ \A e \in Entries : e < New /\ entries'[e].id = entries[e].id /\ entries'[e].fate = entries[e].fate
         /\ entries'[New].id = id /\ entries'[New].fate = fate
         /\ entries' \in Seq([id : Ids, fate : Fates]) /\ cached' \in [Ids -> Nat]
         /\ CacheIsLive'
  <1>1. entries \in Seq([id : Ids, fate : Fates]) /\ [id |-> id, fate |-> fate] \in [id : Ids, fate : Fates]
    BY DEF IInv, TypeOK, Fates
  <1>2. entries' = Append(entries, [id |-> id, fate |-> fate])
    BY DEF MakesEntry
  <1>3. Entries' = Entries \cup {New} /\ New \notin Entries /\ New \in Nat \ {0}
    BY <1>1, <1>2 DEF Entries, New
  <1>4. \A e \in Entries : e < New /\ entries'[e] = entries[e]
    BY <1>1, <1>2 DEF Entries, New
  <1>5. entries'[New] = [id |-> id, fate |-> fate]
    BY <1>1, <1>2 DEF New
  <1>6. entries' \in Seq([id : Ids, fate : Fates]) /\ cached' \in [Ids -> Nat]
    BY <1>1, <1>2, <1>3 DEF MakesEntry, IInv, TypeOK
  <1>7. cached' = [cached EXCEPT ![id] = New] /\ cached[id] = 0 /\ cached \in [Ids -> Nat]
    BY DEF MakesEntry, IInv, TypeOK
  <1>8. \A i \in Ids : cached'[i] # 0 =>
          cached'[i] \in Entries' /\ entries'[cached'[i]].id = i /\ entries'[cached'[i]].fate # "failed"
    <2> SUFFICES ASSUME NEW i \in Ids, cached'[i] # 0
                 PROVE  cached'[i] \in Entries' /\ entries'[cached'[i]].id = i /\ entries'[cached'[i]].fate # "failed"
      OBVIOUS
    <2>1. CASE i = id
      BY <2>1, <1>3, <1>5, <1>7 DEF IdOf, Fate
    <2>2. CASE i # id
      BY <2>2, <1>3, <1>4, <1>7 DEF IInv, CacheIsLive, IdOf, Fate
    <2> QED BY <2>1, <2>2
  <1>9. \A e \in Entries' : entries'[e].fate # "failed" => cached'[entries'[e].id] = e
    <2> SUFFICES ASSUME NEW e \in Entries', entries'[e].fate # "failed"
                 PROVE  cached'[entries'[e].id] = e
      OBVIOUS
    <2>1. CASE e = New
      BY <2>1, <1>5, <1>7 DEF IdOf
    <2>2. CASE e \in Entries
      <3>1. entries[e].fate # "failed" /\ entries'[e].id = entries[e].id /\ entries[e].id \in Ids /\ e # 0
        BY <2>2, <1>4, EntryTyped DEF IInv
      <3>2. cached[entries[e].id] = e
        BY <3>1, <2>2 DEF IInv, CacheIsLive
      <3> QED BY <3>1, <3>2, <1>7
    <2> QED BY <2>1, <2>2, <1>3
  <1>10. CacheIsLive'
    BY <1>8, <1>9 DEF CacheIsLive
  <1> QED BY <1>1, <1>3, <1>4, <1>5, <1>6, <1>10 DEF IdOf, Fate

\* A file that cannot be loaded leaves its entry, which never runs.
LEMMA CannotLoadStep ==
  ASSUME IInv, NEW id \in Ids, CannotLoad(id)
  PROVE  IInv'
  <1>1. MakesEntry(id, "unread") /\ UNCHANGED <<running, held>>
        /\ answer' = [kind |-> "threw", entry |-> 0]
    BY DEF CannotLoad, Gives
  <1>2. /\ Entries' = Entries \cup {New} /\ New \notin Entries
        /\ \A e \in Entries : e < New /\ entries'[e].id = entries[e].id /\ entries'[e].fate = entries[e].fate
        /\ entries'[New].id = id /\ entries'[New].fate = "unread"
        /\ entries' \in Seq([id : Ids, fate : Fates]) /\ cached' \in [Ids -> Nat]
        /\ CacheIsLive'
    BY <1>1, MakesEntryStep
  <1>3. TypeOK'
    BY <1>1, <1>2 DEF IInv, TypeOK, Answers
  <1>4. RunningNests'
    BY <1>1, <1>2 DEF IInv, RunningNests
  <1>5. HeldInside'
    BY <1>1, <1>2 DEF IInv, HeldInside
  <1>6. AnswerKnown'
    BY <1>1 DEF AnswerKnown
  <1> QED BY <1>2, <1>3, <1>4, <1>5, <1>6 DEF IInv

\* A file that begins is the innermost, and has its own exports.
LEMMA LoadsStep ==
  ASSUME IInv, NEW id \in Ids, Loads(id)
  PROVE  IInv'
  <1>1. MakesEntry(id, "running") /\ running' = Append(running, New)
        /\ held' = held \cup {<<New, New>>} /\ answer' = [kind |-> "none", entry |-> 0]
    BY DEF Loads, Gives
  <1>2. /\ Entries' = Entries \cup {New} /\ New \notin Entries /\ New \in Nat \ {0}
        /\ \A e \in Entries : e < New /\ entries'[e].id = entries[e].id /\ entries'[e].fate = entries[e].fate
        /\ entries'[New].id = id /\ entries'[New].fate = "running"
        /\ entries' \in Seq([id : Ids, fate : Fates]) /\ cached' \in [Ids -> Nat]
        /\ CacheIsLive'
    BY <1>1, MakesEntryStep
  <1>3. TypeOK'
    BY <1>1, <1>2 DEF IInv, TypeOK, Answers
  <1>4. RunningNests'
    <2>1. running \in Seq(Nat \ {0}) /\ New \in Nat \ {0}
      BY <1>2 DEF IInv, TypeOK
    <2>2. /\ DOMAIN running' = DOMAIN running \cup {Len(running) + 1}
          /\ \A i \in DOMAIN running : running'[i] = running[i] /\ i < Len(running) + 1
          /\ running'[Len(running) + 1] = New /\ Len(running) + 1 \notin DOMAIN running
          /\ DOMAIN running \subseteq Nat /\ Len(running) \in Nat
      BY <1>1, <2>1
    <2>3. \A i \in DOMAIN running' : running'[i] \in Entries' /\ entries'[running'[i]].fate = "running"
      BY <1>2, <2>2 DEF IInv, RunningNests
    <2>4. \A i, j \in DOMAIN running' : i < j => running'[i] < running'[j]
      <3> SUFFICES ASSUME NEW i \in DOMAIN running', NEW j \in DOMAIN running', i < j
                   PROVE  running'[i] < running'[j]
        OBVIOUS
      <3>1. i \in DOMAIN running
        BY <2>2
      <3>2. CASE j \in DOMAIN running
        BY <3>1, <3>2, <2>2 DEF IInv, RunningNests
      <3>3. CASE j = Len(running) + 1
        BY <3>1, <3>3, <2>2, <1>2 DEF IInv, RunningNests
      <3> QED BY <3>2, <3>3, <2>2
    <2>5. \A e \in Entries' : entries'[e].fate = "running" => \E i \in DOMAIN running' : running'[i] = e
      BY <1>2, <2>2 DEF IInv, RunningNests
    <2> QED BY <2>3, <2>4, <2>5 DEF RunningNests
  <1>5. HeldInside'
    <2> SUFFICES ASSUME NEW h \in held'
                 PROVE  h[2] \in Entries' /\ (entries'[h[2]].fate \in {"running", "failed"} => h[2] <= h[1])
      BY DEF HeldInside
    <2>1. CASE h \in held
      BY <2>1, <1>2 DEF IInv, HeldInside
    <2>2. CASE h = <<New, New>>
      BY <2>2, <1>2
    <2> QED BY <2>1, <2>2, <1>1
  <1>6. AnswerKnown'
    BY <1>1 DEF AnswerKnown
  <1> QED BY <1>2, <1>3, <1>4, <1>5, <1>6 DEF IInv

\* The innermost file ends one way or another: the others are as they were.
LEMMA EndStep ==
  ASSUME IInv, running # <<>>, NEW fate \in {"complete", "failed"},
         entries' = [entries EXCEPT ![Top].fate = fate], running' = Popped
  PROVE  /\ entries' \in Seq([id : Ids, fate : Fates]) /\ running' \in Seq(Nat \ {0})
         /\ Entries' = Entries /\ entries'[Top].fate = fate
         /\ \A e \in Entries : entries'[e].id = entries[e].id /\ (e # Top => entries'[e].fate = entries[e].fate)
         /\ RunningNests'
  <1>1. Top \in Entries /\ entries[Top].fate = "running"
    BY TopIsLatest
  <1>2. /\ entries \in Seq([id : Ids, fate : Fates]) /\ running \in Seq(Nat \ {0})
        /\ Len(running) \in Nat \ {0}
    BY DEF IInv, TypeOK
  <1>3. /\ DOMAIN running' = 1..(Len(running) - 1) /\ running' \in Seq(Nat \ {0})
        /\ \A i \in DOMAIN running' : running'[i] = running[i] /\ i \in DOMAIN running
    BY <1>2 DEF Popped
  <1> DEFINE ended == [entries[Top] EXCEPT !.fate = fate]
  <1>a. ended \in [id : Ids, fate : Fates] /\ ended.fate = fate /\ ended.id = entries[Top].id
    BY <1>1, EntryTyped DEF IInv, Fates
  <1>b. entries' = [entries EXCEPT ![Top] = ended]
    OBVIOUS
  <1> HIDE DEF ended
  <1>4. Entries' = Entries /\ entries' \in Seq([id : Ids, fate : Fates])
    <2> DEFINE S == [id : Ids, fate : Fates]
    <2>1. entries \in Seq(S) /\ ended \in S /\ Top \in DOMAIN entries
      BY <1>1, <1>2, <1>a DEF Entries
    <2> HIDE DEF S
    <2>2. /\ [entries EXCEPT ![Top] = ended] \in Seq(S)
          /\ DOMAIN [entries EXCEPT ![Top] = ended] = DOMAIN entries
      BY <2>1, SeqReplaced
    <2> QED BY <2>2, <1>b DEF S, Entries
  <1>5. entries'[Top].fate = fate
        /\ \A e \in Entries : entries'[e].id = entries[e].id /\ (e # Top => entries'[e].fate = entries[e].fate)
    <2>1. \A e \in Entries : e # Top => entries'[e] = entries[e]
      BY <1>1, <1>2 DEF Entries
    <2>2. entries'[Top] = ended
      BY <1>1, <1>2, <1>b DEF Entries
    <2> QED BY <2>1, <2>2, <1>a
  <1>6. RunningNests'
    <2>1. \A i \in DOMAIN running' : running[i] # Top
      <3> SUFFICES ASSUME NEW i \in DOMAIN running' PROVE running[i] # Top
        OBVIOUS
      <3>1. i \in DOMAIN running /\ Len(running) \in DOMAIN running /\ i < Len(running)
        BY <1>2, <1>3
      <3>2. running[i] < Top /\ running[i] \in Nat /\ Top \in Nat
        BY <1>2, <3>1 DEF IInv, RunningNests, Top
      <3> QED BY <3>2
    <2>2. \A i \in DOMAIN running' : running'[i] \in Entries' /\ entries'[running'[i]].fate = "running"
      BY <2>1, <1>3, <1>4, <1>5 DEF IInv, RunningNests
    <2>3. \A i, j \in DOMAIN running' : i < j => running'[i] < running'[j]
      BY <1>3 DEF IInv, RunningNests
    <2>4. \A e \in Entries' : entries'[e].fate = "running" => \E i \in DOMAIN running' : running'[i] = e
      <3> SUFFICES ASSUME NEW e \in Entries', entries'[e].fate = "running"
                   PROVE  \E i \in DOMAIN running' : running'[i] = e
        OBVIOUS
      <3>1. e \in Entries /\ e # Top /\ entries[e].fate = "running"
        BY <1>4, <1>5
      <3>2. PICK i \in DOMAIN running : running[i] = e
        BY <3>1 DEF IInv, RunningNests
      <3>3. i # Len(running)
        BY <3>1, <3>2 DEF Top
      <3>4. i \in DOMAIN running'
        BY <3>3, <1>2, <1>3
      <3> QED BY <3>2, <3>4, <1>3
    <2> QED BY <2>2, <2>3, <2>4 DEF RunningNests
  <1> QED BY <1>3, <1>4, <1>5, <1>6

\* Exports held stay held by modules begun no earlier, whatever Top becomes.
LEMMA HeldAfterEnd ==
  ASSUME IInv, Entries' = Entries, NEW h \in held, running # <<>>,
         NEW fate \in {"complete", "failed"}, entries'[Top].fate = fate,
         \A e \in Entries : e # Top => entries'[e].fate = entries[e].fate
  PROVE  h[2] \in Entries' /\ (entries'[h[2]].fate \in {"running", "failed"} => h[2] <= h[1])
  <1>1. h[2] \in Entries /\ (entries[h[2]].fate \in {"running", "failed"} => h[2] <= h[1])
    BY DEF IInv, HeldInside
  <1>2. entries[Top].fate = "running"
    BY TopIsLatest
  <1> QED BY <1>1, <1>2

\* A file that ends leaves its entry complete, and require returns it.
LEMMA BodyEndsStep ==
  ASSUME IInv, BodyEnds
  PROVE  IInv'
  <1> DEFINE e == cached[entries[Top].id]
             m == IF Popped = <<>> THEN 0 ELSE Popped[Len(Popped)]
  <1>1. running # <<>> /\ entries' = [entries EXCEPT ![Top].fate = "complete"]
        /\ running' = Popped /\ cached' = cached
    BY DEF BodyEnds
  <1>2. /\ entries' \in Seq([id : Ids, fate : Fates]) /\ running' \in Seq(Nat \ {0})
        /\ Entries' = Entries /\ entries'[Top].fate = "complete"
        /\ \A f \in Entries : entries'[f].id = entries[f].id /\ (f # Top => entries'[f].fate = entries[f].fate)
        /\ RunningNests'
    BY <1>1, EndStep
  <1>3. Top \in Entries /\ Top \in Nat \ {0} /\ e = Top
    BY <1>1, TopIsLatest
  <1>4. held' = held \cup {<<m, Top>>} /\ answer' = [kind |-> "exports", entry |-> Top]
    BY <1>3 DEF BodyEnds, GivesExports, Gives, IdOf
  <1>5. m \in Nat
    BY <1>2, <1>1
  <1>6. TypeOK'
    <2>1. held' \subseteq Nat \X Nat
      BY <1>3, <1>4, <1>5 DEF IInv, TypeOK
    <2>2. answer' \in [kind : Answers, entry : Nat]
      BY <1>3, <1>4 DEF Answers
    <2> QED BY <1>1, <1>2, <2>1, <2>2 DEF IInv, TypeOK
  <1>7. CacheIsLive'
    BY <1>1, <1>2, <1>3, TopIsLatest DEF IInv, CacheIsLive
  <1>8. HeldInside'
    <2> SUFFICES ASSUME NEW h \in held'
                 PROVE  h[2] \in Entries' /\ (entries'[h[2]].fate \in {"running", "failed"} => h[2] <= h[1])
      BY DEF HeldInside
    <2>1. CASE h \in held
      BY <2>1, <1>1, <1>2, HeldAfterEnd
    <2>2. CASE h = <<m, Top>>
      BY <2>2, <1>2, <1>3
    <2> QED BY <2>1, <2>2, <1>4
  <1>9. AnswerKnown'
    BY <1>2, <1>3, <1>4 DEF AnswerKnown
  <1> QED BY <1>2, <1>6, <1>7, <1>8, <1>9 DEF IInv

\* A file that throws takes its entry out of the cache, and no other.
LEMMA BodyThrowsStep ==
  ASSUME IInv, BodyThrows
  PROVE  IInv'
  <1>1. /\ running # <<>> /\ entries' = [entries EXCEPT ![Top].fate = "failed"]
        /\ running' = Popped /\ held' = held
        /\ cached' = [cached EXCEPT ![entries[Top].id] = 0]
        /\ answer' = [kind |-> "threw", entry |-> 0]
    BY DEF BodyThrows, Gives, IdOf
  <1>2. /\ entries' \in Seq([id : Ids, fate : Fates]) /\ running' \in Seq(Nat \ {0})
        /\ Entries' = Entries /\ entries'[Top].fate = "failed"
        /\ \A f \in Entries : entries'[f].id = entries[f].id /\ (f # Top => entries'[f].fate = entries[f].fate)
        /\ RunningNests'
    BY <1>1, EndStep
  <1>3. Top \in Entries /\ cached[entries[Top].id] = Top /\ entries[Top].id \in Ids
    BY <1>1, TopIsLatest
  <1>4. TypeOK'
    BY <1>1, <1>2 DEF IInv, TypeOK, Answers
  <1>5. CacheIsLive'
    <2>1. \A i \in Ids : cached'[i] # 0 =>
            cached'[i] \in Entries' /\ entries'[cached'[i]].id = i /\ entries'[cached'[i]].fate # "failed"
      BY <1>1, <1>2, <1>3 DEF IInv, TypeOK, CacheIsLive
    <2>2. \A f \in Entries' : entries'[f].fate # "failed" => cached'[entries'[f].id] = f
      BY <1>1, <1>2, <1>3 DEF IInv, TypeOK, CacheIsLive
    <2> QED BY <2>1, <2>2 DEF CacheIsLive
  <1>6. HeldInside'
    BY <1>1, <1>2, HeldAfterEnd DEF HeldInside
  <1>7. AnswerKnown'
    BY <1>1 DEF AnswerKnown
  <1> QED BY <1>2, <1>4, <1>5, <1>6, <1>7 DEF IInv

\* Every step keeps the invariant.
LEMMA NextIInv == IInv /\ [Next]_vars => IInv'
  <1> SUFFICES ASSUME IInv, [Next]_vars PROVE IInv'
    OBVIOUS
  <1>1. ASSUME NEW id \in Ids, RequireInherited(id) PROVE IInv'
    BY <1>1 DEF RequireInherited, Gives, IInv, TypeOK, CacheIsLive, RunningNests, HeldInside,
                AnswerKnown, Entries, IdOf, Fate, Answers
  <1>2. CASE UNCHANGED vars
    BY <1>2 DEF vars, IInv, TypeOK, CacheIsLive, RunningNests, HeldInside,
                AnswerKnown, Entries, IdOf, Fate
  <1> QED BY <1>1, <1>2, CachedStep, CannotLoadStep, LoadsStep, BodyEndsStep, BodyThrowsStep DEF Next

\* The invariant holds in every state.
THEOREM Invariant == Spec => []IInv
  BY InitIInv, NextIInv, PTL DEF Spec

-----------------------------------------------------------------------------
\* A file runs once to its end and is not run while it runs, so require never
\* recurses deeper than there are files.
THEOREM RunsOnce == Spec => []LoadedOnce
  <1>1. IInv => LoadedOnce
    <2> SUFFICES ASSUME IInv PROVE LoadedOnce
      OBVIOUS
    <2>1. ASSUME NEW i \in DOMAIN running, NEW j \in DOMAIN running, i # j
          PROVE  entries[running[i]].id # entries[running[j]].id
      <3>1. i \in Nat /\ j \in Nat /\ running[i] \in Nat /\ running[j] \in Nat
        BY SeqElement DEF IInv, TypeOK
      <3>2. running[i] # running[j]
        BY <2>1, <3>1 DEF IInv, RunningNests
      <3>3. /\ cached[entries[running[i]].id] = running[i]
            /\ cached[entries[running[j]].id] = running[j]
        BY DEF IInv, RunningNests, CacheIsLive
      <3> QED BY <3>2, <3>3
    <2>2. ASSUME NEW e \in Entries, NEW f \in Entries, entries[e].id = entries[f].id,
                 entries[e].fate # "failed", entries[f].fate # "failed"
          PROVE  e = f
      BY <2>2 DEF IInv, CacheIsLive
    <2> QED BY <2>1, <2>2 DEF LoadedOnce, Fate, IdOf
  <1> QED BY <1>1, Invariant, PTL

\* The end of require finds the entry it made.
THEOREM EntryKept == Spec => []EntryStillThere
  <1>1. IInv => EntryStillThere
    BY DEF IInv, CacheIsLive, RunningNests, EntryStillThere, Fate, IdOf
  <1> QED BY <1>1, Invariant, PTL

\* require does not return the exports of a module that has thrown.
THEOREM LiveAnswers == Spec => []AnswersLive
  <1>1. IInv => AnswersLive
    BY DEF IInv, AnswerKnown, AnswersLive, Fate, IdOf
  <1> QED BY <1>1, Invariant, PTL

\* Only modules begun after one that throws hold its exports.
THEOREM DeadInside == Spec => []DeadExportsInside
  <1>1. IInv => DeadExportsInside
    BY DEF IInv, HeldInside, DeadExportsInside, Fate, IdOf
  <1> QED BY <1>1, Invariant, PTL

\* A module that has ended is the one every later require returns.
THEOREM CompleteStays == Spec => CompleteForEver
  <1> DEFINE A == \A e \in Entries : Fate(e) = "complete" =>
                    Fate(e)' = "complete" /\ cached'[IdOf(e)] = e
  <1>1. IInv /\ IInv' /\ [Next]_vars => [A]_vars
    <2> SUFFICES ASSUME IInv, IInv', Next, NEW e \in Entries, entries[e].fate = "complete"
                 PROVE  entries'[e].fate = "complete" /\ cached'[entries[e].id] = e
      BY DEF Fate, IdOf
    <2>1. e \in Entries' /\ entries'[e].id = entries[e].id /\ entries'[e].fate = "complete"
      <3>1. ASSUME NEW id \in Ids, NEW fate \in {"running", "unread"}, MakesEntry(id, fate)
            PROVE  e \in Entries' /\ entries'[e].id = entries[e].id /\ entries'[e].fate = "complete"
        BY <3>1, MakesEntryStep
      <3>2. ASSUME running # <<>>, NEW fate \in {"complete", "failed"},
                   entries' = [entries EXCEPT ![Top].fate = fate], running' = Popped
            PROVE  e \in Entries' /\ entries'[e].id = entries[e].id /\ entries'[e].fate = "complete"
        BY <3>2, EndStep, TopIsLatest
      <3>3. CASE entries' = entries
        BY <3>3 DEF Entries, IdOf, Fate
      <3>4. CASE BodyEnds
        BY <3>4, <3>2 DEF BodyEnds
      <3>5. CASE BodyThrows
        BY <3>5, <3>2 DEF BodyThrows
      <3>6. ASSUME NEW id \in Ids, CannotLoad(id) \/ Loads(id)
            PROVE  e \in Entries' /\ entries'[e].id = entries[e].id /\ entries'[e].fate = "complete"
        BY <3>6, <3>1 DEF CannotLoad, Loads
      <3>7. ASSUME NEW id \in Ids, RequireInherited(id) \/ RequireCached(id)
            PROVE  entries' = entries
        BY <3>7 DEF RequireInherited, RequireCached
      <3> QED BY <3>3, <3>4, <3>5, <3>6, <3>7 DEF Next
    <2> QED BY <2>1 DEF IInv, CacheIsLive
  <1> QED BY <1>1, Invariant, PTL DEF Spec, CompleteForEver
=============================================================================
