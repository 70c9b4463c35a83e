---------------------------- MODULE ProgramProofs ----------------------------
(***************************************************************************)
(* Theorems about ProgramStore, for every set of functions, variables and   *)
(* threads, every limit of the history and any failures of files; and about *)
(* ProgramRun, for every program, nesting, set of targets and set of runs.  *)
(*                                                                         *)
(* StoreBase: what is left of every operation agrees with the files and the *)
(* locks.  StoreResolves: until a version was brought back and something    *)
(* was removed, documents, versions that were kept and what every operation *)
(* has left to write refer to what exists.                                 *)
(*                                                                         *)
(* ProgramBase: at every frame of a run the stack of targets has a height   *)
(* that its scopes account for, and what its frames have acquired is what   *)
(* the table of its process says it owns.                                  *)
(***************************************************************************)
EXTENDS ProgramStore, ProgramRun, SequenceTheorems, TLAPS

Docs == [there: BOOLEAN, refs: SUBSET Names]
Entries == [doc: Docs, companion: SUBSET Functions, extracted: Docs, exists: BOOLEAN]

\* Steps of the plan that repairs a failure, of a plan, and the step of delete_variable.
RepairSteps == [do: {"archive", "replace", "unlink"}, f: Functions, doc: Docs, otherwise: {<<>>}]
FileSteps == [do: {"archive", "replace", "unlink", "link"}, f: Functions, doc: Docs,
              otherwise: Seq(RepairSteps)]
VariableSteps == [do: {"variable"}, f: Variables, doc: Docs, otherwise: {<<>>}]
Steps == FileSteps \cup VariableSteps

Thens == {"nothing", "edited", "undone", "redone", "deleted", "restored", "failed", "variable"}
Works == [todo: Seq(Steps), then: Thens, f: Functions, entry: Entries]

StoreTypes ==
    /\ documents \in [Functions -> Docs]
    /\ variables \in SUBSET Variables
    /\ archive \in [Functions -> Seq(Docs)]
    /\ undos \in [Functions -> Seq(Entries)]
    /\ redos \in [Functions -> Seq(Entries)]
    /\ locks \in [{"workspace", "service"} -> Requests \cup {"free"}]
    /\ work \in [Requests -> Works]
    /\ wentBack \in BOOLEAN
    /\ removed \in BOOLEAN

\* What replaces or removes a document comes right after the step that keeps it.
Guarded(p) ==
    \A i \in 2..Len(p) :
        p[i].do \in {"replace", "unlink"} => p[i - 1].do = "archive" /\ p[i - 1].f = p[i].f
Cautious(p) == p # <<>> => p[1].do \notin {"replace", "unlink"}

IsRepair(o) ==
    /\ Guarded(o) /\ Cautious(o)
    /\ \A k \in 1..Len(o) : o[k].do # "archive" => k = Len(o)
    /\ \A k \in 1..Len(o) : o[k].do = "replace" => o[k].doc.there

IsPlan(p) ==
    /\ Guarded(p)
    /\ \A i \in 1..Len(p) :
        /\ p[i].do = "unlink" => i = Len(p)
        /\ p[i].do \in {"replace", "link"} => p[i].doc.there
        /\ IsRepair(p[i].otherwise)

Returns == {"undone", "redone", "restored"}   \* operations that bring a version back
Remembers == {"edited", "undone", "redone"}   \* operations that add to a stack

Lasting(entry) == entry.doc.there /\ (entry.companion # {} => entry.extracted.there)

\* What is left of an operation, and how it agrees with what it is.
IsWork(w) ==
    /\ IsPlan(w.todo)
    /\ \A i \in 1..Len(w.todo) :
        /\ w.todo[i].do = "variable" <=> w.then = "variable"
        /\ w.then = "restored" => w.todo[i].otherwise = <<>>
        /\ w.todo[i].do = "replace" /\ w.then \notin {"undone", "redone"} => i = Len(w.todo)
    /\ w.then \in Remembers => Lasting(w.entry)

\* A function is there, or the plan makes it before its step i.
There(p, i, f) == documents[f].there \/ \E j \in 1..(i - 1) : p[j].do = "link" /\ p[j].f = f

Archived(f) == archive[f] # <<>> /\ archive[f][Len(archive[f])] = documents[f]

IsReady(p) ==
    /\ p # <<>> /\ p[1].do \in {"replace", "unlink"} => Archived(p[1].f)
    /\ \A i \in 1..Len(p) :
        /\ p[i].do = "archive" => There(p, i, p[i].f)
        /\ \A k \in 1..Len(p[i].otherwise) :
              p[i].otherwise[k].do = "archive" => There(p, i, p[i].otherwise[k].f)

HasLocks(t, w) ==
    w.todo # <<>> =>
        \/ w.then = "variable" /\ locks.workspace = t
        \/ w.then = "restored" /\ locks.service = t
        \/ locks.workspace = t /\ locks.service = t

Sane(t, w) == IsWork(w) /\ IsReady(w.todo) /\ HasLocks(t, w)

StoreBase ==
    /\ StoreTypes
    /\ \A f \in Functions :
        /\ \A n \in 1..Len(archive[f]) : archive[f][n].there
        /\ \A n \in 1..Len(undos[f]) : Lasting(undos[f][n])
        /\ \A n \in 1..Len(redos[f]) : Lasting(redos[f][n])
    /\ \A t \in Requests : \A w \in {work[t]} : Sane(t, w)

-----------------------------------------------------------------------------
\* While anything is still promised: not everything was removed and brought back.
Promised == ~(wentBack /\ removed)
Known == Existing \cup variables
Uncalled(f) == \A g \in Existing \ {f} : f \notin documents[g].refs
NobodyUses(v) == \A g \in Existing : v \notin documents[g].refs

Replaces(p, i) == \E j \in 1..(i - 1) : p[j].do = "replace"

\* What an operation writes refers to what exists, or to what it makes before.
Provided(p, then) ==
    \A i \in 1..Len(p) :
        p[i].do \in {"replace", "link"} /\ (removed => then \notin Returns) =>
            \A r \in p[i].doc.refs :
                r \in Known \/ \E j \in 1..(i - 1) : p[j].do = "link" /\ p[j].f = r

\* A plan that makes a function removes no other.
MakesOne(p, then) ==
    \A i, j \in 1..Len(p) :
        p[i].do = "link" =>
            /\ then \notin Returns
            /\ p[j].do # "unlink"
            /\ \A k \in 1..Len(p[j].otherwise) :
                  p[j].otherwise[k].do = "unlink" => p[j].otherwise[k].f = p[i].f

\* What is about to go is not used, unless a version is brought back before.
Unneeded(p, then) ==
    \A i \in 1..Len(p) :
        /\ p[i].do = "unlink" /\ ~wentBack =>
              \/ Uncalled(p[i].f)
              \/ then \in Returns /\ Replaces(p, i)
        /\ p[i].do = "variable" /\ ~wentBack => NobodyUses(p[i].f)

Repairable(p, then) ==
    \A i \in 1..Len(p) : \A k \in 1..Len(p[i].otherwise) :
        /\ p[i].otherwise[k].do = "unlink" /\ ~wentBack => Uncalled(p[i].otherwise[k].f)
        /\ p[i].otherwise[k].do = "replace" =>
              /\ wentBack \/ (then \in Returns /\ Replaces(p, i))
              /\ ~removed => p[i].otherwise[k].doc.refs \subseteq Known

\* What goes to the stacks.
Memorable(w) ==
    /\ ~removed => w.entry.doc.refs \subseteq Known
    /\ w.entry.exists =>
          /\ w.then \in Returns
          /\ wentBack \/ Replaces(w.todo, Len(w.todo) + 1)
          /\ removed \/ \E j \in 1..Len(w.todo) : w.todo[j].do = "unlink"

Settled(w) ==
    /\ Provided(w.todo, w.then) /\ MakesOne(w.todo, w.then)
    /\ Unneeded(w.todo, w.then) /\ Repairable(w.todo, w.then)
    /\ Memorable(w)

DocumentsKnown == \A f \in Existing : documents[f].refs \subseteq Known

\* Until something is removed every version that was kept can come back.
HistoryKnown ==
    ~removed =>
        /\ variables = Variables
        /\ \A f \in Functions :
            /\ \A n \in 1..Len(archive[f]) : archive[f][n].refs \subseteq Known
            /\ \A n \in 1..Len(undos[f]) : undos[f][n].doc.refs \subseteq Known
            /\ \A n \in 1..Len(redos[f]) : redos[f][n].doc.refs \subseteq Known

\* Going back makes a function again only after an extraction was taken back.
NothingTakenBack ==
    \A f \in Functions :
        /\ \A n \in 1..Len(undos[f]) : ~undos[f][n].exists
        /\ \A n \in 1..Len(redos[f]) : ~redos[f][n].exists

StoreResolves ==
    Promised =>
        /\ DocumentsKnown /\ HistoryKnown /\ NothingTakenBack
        /\ \A t \in Requests : \A w \in {work[t]} : Settled(w)

-----------------------------------------------------------------------------
\* A stack or an archive after one more entry.
IsLonger(h, s, d) ==
    /\ h # <<>>
    /\ h[Len(h)] = d
    /\ \A n \in 1..Len(h) : h[n] = d \/ \E m \in 1..Len(s) : h[n] = s[m]

(* A history or stack with one more entry still holds that entry, at its end.*)
LEMMA HistoryIsTrimmed ==
    ASSUME NEW S, NEW s \in Seq(S), NEW d \in S
    PROVE  Trimmed(Append(s, d)) \in Seq(S) /\ IsLonger(Trimmed(Append(s, d)), s, d)
<1> DEFINE a == Append(s, d)
<1>1. a \in Seq(S) /\ Len(a) = Len(s) + 1 /\ a[Len(a)] = d /\ (\A n \in 1..Len(s) : a[n] = s[n])
  OBVIOUS
<1>2. Len(s) \in Nat /\ HistoryLimit \in Nat \ {0}
  BY ProgramAssumption
<1> HIDE DEF a
<1>3. CASE Len(a) <= HistoryLimit
  <2>1. Trimmed(a) = a
    BY <1>3 DEF Trimmed
  <2>2. a # <<>>
    BY <1>1, <1>2
  <2> QED
    BY <2>1, <2>2, <1>1, <1>2 DEF a, IsLonger
<1>4. CASE ~(Len(a) <= HistoryLimit)
  <2>1. Trimmed(a) = Tail(a)
    BY <1>4 DEF Trimmed
  <2>2. a # <<>> /\ Len(a) > 1
    BY <1>1, <1>2, <1>4
  <2>3. Tail(a) \in Seq(S) /\ Len(Tail(a)) = Len(a) - 1 /\ (\A n \in 1..Len(Tail(a)) : Tail(a)[n] = a[n + 1])
    BY <1>1, <2>2
  <2>4. Tail(a) # <<>> /\ Tail(a)[Len(Tail(a))] = a[Len(a)]
    BY <2>2, <2>3, <1>1, <1>2
  <2>5. \A n \in 1..Len(Tail(a)) : Tail(a)[n] = d \/ \E m \in 1..Len(s) : Tail(a)[n] = s[m]
    <3> TAKE n \in 1..Len(Tail(a))
    <3>1. n + 1 \in 1..Len(a) /\ Tail(a)[n] = a[n + 1]
      BY <2>3, <1>1, <1>2
    <3>2. n + 1 = Len(a) \/ n + 1 \in 1..Len(s)
      BY <3>1, <1>1, <1>2
    <3> QED
      BY <3>1, <3>2, <1>1
  <2> QED
    BY <2>1, <2>3, <2>4, <2>5, <1>1 DEF a, IsLonger
<1> QED
  BY <1>3, <1>4

(* The steps of a plan that saves.                                         *)
LEMMA SaveSteps ==
    ASSUME NEW f, NEW doc, NEW o
    PROVE  LET p == SavePlan(f, doc, o) IN
           /\ Len(p) = 2
           /\ p[1] = FileStep("archive", f, NoDocument, o)
           /\ p[2] = FileStep("replace", f, doc, o)
BY DEF SavePlan

(* The steps of a plan that deletes.                                       *)
LEMMA DeleteSteps ==
    ASSUME NEW f, NEW o
    PROVE  LET p == DeletePlan(f, o) IN
           /\ Len(p) = 2
           /\ p[1] = FileStep("archive", f, NoDocument, o)
           /\ p[2] = FileStep("unlink", f, NoDocument, o)
BY DEF DeletePlan

IsJoin(p, a, b) ==
    /\ Len(p) = Len(a) + Len(b)
    /\ \A i \in 1..Len(a) : p[i] = a[i]
    /\ \A i \in 1..Len(b) : p[Len(a) + i] = b[i]

(* The steps of two plans, one after the other.                            *)
LEMMA Joined ==
    ASSUME NEW S, NEW a \in Seq(S), NEW b \in Seq(S)
    PROVE  a \o b \in Seq(S) /\ IsJoin(a \o b, a, b)
<1>1. /\ a \o b \in Seq(S)
      /\ Len(a \o b) = Len(a) + Len(b)
      /\ \A i \in 1..(Len(a) + Len(b)) : (a \o b)[i] = IF i <= Len(a) THEN a[i] ELSE b[i - Len(a)]
  BY ConcatProperties, Zenon
<1>2. Len(a) \in Nat /\ Len(b) \in Nat
  OBVIOUS
<1>3. ASSUME NEW i \in 1..Len(b) PROVE (a \o b)[Len(a) + i] = b[i]
  <2>1. Len(a) + i \in 1..(Len(a) + Len(b)) /\ ~(Len(a) + i <= Len(a)) /\ (Len(a) + i) - Len(a) = i
    BY <1>2
  <2> QED
    BY <1>1, <2>1
<1> QED
  BY <1>1, <1>2, <1>3 DEF IsJoin

Appears(p, f, doc, e, extracted, o) ==
    /\ p \in Seq(FileSteps) /\ Len(p) = 3
    /\ p[1] = FileStep("link", e, extracted, <<>>)
    /\ p[2] = FileStep("archive", f, NoDocument, o)
    /\ p[3] = FileStep("replace", f, doc, o)

(* The steps of a plan that makes a companion.                             *)
LEMMA AppearSteps ==
    ASSUME NEW f \in Functions, NEW doc \in Docs, NEW e \in Functions, NEW extracted \in Docs,
           NEW p, p = CompanionPlan(f, doc, e, extracted, TRUE),
           NEW o, o = DeletePlan(e, <<>>)
    PROVE  Appears(p, f, doc, e, extracted, o)
<1>1. NoDocument \in Docs
  BY DEF NoDocument, Docs
<1>2. DeletePlan(e, <<>>) \in Seq(RepairSteps)
  BY <1>1 DEF DeletePlan, FileStep, RepairSteps
<1>3. CreatePlan(e, extracted) \in Seq(FileSteps) /\ Len(CreatePlan(e, extracted)) = 1
      /\ CreatePlan(e, extracted)[1] = FileStep("link", e, extracted, <<>>)
  BY DEF CreatePlan, FileStep, FileSteps
<1> DEFINE a == CreatePlan(e, extracted)
           b == SavePlan(f, doc, o)
<1>4. b \in Seq(FileSteps)
  BY <1>1, <1>2 DEF SavePlan, FileStep, FileSteps
<1>5. p = a \o b
  BY Zenon DEF CompanionPlan
<1>6. Len(b) = 2 /\ b[1] = FileStep("archive", f, NoDocument, o)
      /\ b[2] = FileStep("replace", f, doc, o)
  BY SaveSteps
<1> DEFINE S == FileSteps
<1>0. a \in Seq(S) /\ b \in Seq(S)
  BY <1>3, <1>4
<1>00. Len(a) = 1
  BY <1>3
<1> HIDE DEF a, b, S
<1>01. p \in Seq(S) /\ IsJoin(p, a, b)
  BY <1>0, <1>5, Joined
<1>7. p \in Seq(S) /\ Len(p) = 3 /\ p[1] = a[1] /\ p[2] = b[1] /\ p[3] = b[2]
  <2>1. 1 \in 1..Len(a) /\ 1 \in 1..Len(b) /\ 2 \in 1..Len(b)
    BY <1>00, <1>6
  <2>2. p[1] = a[1] /\ p[Len(a) + 1] = b[1] /\ p[Len(a) + 2] = b[2] /\ Len(p) = Len(a) + Len(b)
    BY <2>1, <1>01, Zenon DEF IsJoin
  <2>3. Len(a) + 1 = 2 /\ Len(a) + 2 = 3 /\ Len(a) + Len(b) = 3
    BY <1>00, <1>6
  <2> QED
    BY <2>2, <2>3, <1>01, Zenon
<1>8. p \in Seq(FileSteps) /\ Len(p) = 3
      /\ p[1] = FileStep("link", e, extracted, <<>>)
      /\ p[2] = FileStep("archive", f, NoDocument, o)
      /\ p[3] = FileStep("replace", f, doc, o)
  BY <1>3, <1>6, <1>7 DEF a, S
<1> QED
  BY <1>8, Zenon DEF Appears

Disappears(p, f, doc, e, o) ==
    /\ p \in Seq(FileSteps) /\ Len(p) = 4
    /\ p[1] = FileStep("archive", f, NoDocument, <<>>)
    /\ p[2] = FileStep("replace", f, doc, <<>>)
    /\ p[3] = FileStep("archive", e, NoDocument, o)
    /\ p[4] = FileStep("unlink", e, NoDocument, o)

(* The steps of a plan that removes a companion.                           *)
LEMMA DisappearSteps ==
    ASSUME NEW f \in Functions, NEW doc \in Docs, NEW e \in Functions, NEW extracted,
           documents[f] \in Docs,
           NEW p, p = CompanionPlan(f, doc, e, extracted, FALSE),
           NEW o, o = SavePlan(f, documents[f], <<>>)
    PROVE  Disappears(p, f, doc, e, o)
<1>1. NoDocument \in Docs
  BY DEF NoDocument, Docs
<1>2. SavePlan(f, documents[f], <<>>) \in Seq(RepairSteps)
  BY <1>1 DEF SavePlan, FileStep, RepairSteps
<1> DEFINE a == SavePlan(f, doc, <<>>)
           b == DeletePlan(e, o)
<1>3. a \in Seq(FileSteps)
  BY <1>1 DEF SavePlan, FileStep, FileSteps
<1>4. b \in Seq(FileSteps)
  BY <1>1, <1>2 DEF DeletePlan, FileStep, FileSteps
<1>5. p = a \o b
  BY Zenon DEF CompanionPlan
<1>6. Len(a) = 2 /\ a[1] = FileStep("archive", f, NoDocument, <<>>)
      /\ a[2] = FileStep("replace", f, doc, <<>>)
  BY SaveSteps
<1>7. Len(b) = 2 /\ b[1] = FileStep("archive", e, NoDocument, o)
      /\ b[2] = FileStep("unlink", e, NoDocument, o)
  BY DeleteSteps
<1> DEFINE S == FileSteps
<1>0. a \in Seq(S) /\ b \in Seq(S)
  BY <1>3, <1>4
<1> HIDE DEF a, b, S
<1>01. p \in Seq(S) /\ IsJoin(p, a, b)
  BY <1>0, <1>5, Joined
<1>8. p \in Seq(S) /\ Len(p) = 4 /\ p[1] = a[1] /\ p[2] = a[2] /\ p[3] = b[1] /\ p[4] = b[2]
  <2>1. /\ 1 \in 1..Len(a) /\ 2 \in 1..Len(a)
        /\ 1 \in 1..Len(b) /\ 2 \in 1..Len(b)
    BY <1>6, <1>7
  <2>2. /\ p[1] = a[1] /\ p[2] = a[2]
        /\ p[Len(a) + 1] = b[1] /\ p[Len(a) + 2] = b[2] /\ Len(p) = Len(a) + Len(b)
    BY <2>1, <1>01, Zenon DEF IsJoin
  <2>3. Len(a) + 1 = 3 /\ Len(a) + 2 = 4 /\ Len(a) + Len(b) = 4
    BY <1>6, <1>7
  <2> QED
    BY <2>2, <2>3, <1>01, Zenon
<1>9. p \in Seq(FileSteps) /\ Len(p) = 4
      /\ p[1] = FileStep("archive", f, NoDocument, <<>>)
      /\ p[2] = FileStep("replace", f, doc, <<>>)
      /\ p[3] = FileStep("archive", e, NoDocument, o)
      /\ p[4] = FileStep("unlink", e, NoDocument, o)
  BY <1>6, <1>7, <1>8 DEF S
<1> QED
  BY <1>9, Zenon DEF Disappears

(* Nothing to do is a plan.                                                *)
LEMMA EmptyIsFine == IsRepair(<<>>) /\ IsPlan(<<>>)
BY DEF IsRepair, IsPlan, Guarded, Cautious

(* Saving and deleting are plans, and are repairs where they have none.    *)
LEMMA PairIsPlan ==
    ASSUME NEW f, NEW doc, NEW o, NEW kind \in {"replace", "unlink"}, NEW p,
           Len(p) = 2,
           p[1] = FileStep("archive", f, NoDocument, o),
           p[2] = FileStep(kind, f, doc, o),
           kind = "replace" => doc.there,
           IsRepair(o)
    PROVE  IsPlan(p) /\ IsRepair(p)
<1>1. /\ p[1].do = "archive" /\ p[1].f = f /\ p[1].otherwise = o
      /\ p[2].do = kind /\ p[2].f = f /\ p[2].doc = doc /\ p[2].otherwise = o
  BY DEF FileStep
<1>2. \A i \in 1..Len(p) : i = 1 \/ i = 2
  OBVIOUS
<1>3. \A i \in 2..Len(p) : i = 2 /\ i - 1 = 1
  OBVIOUS
<1>4. Guarded(p) /\ Cautious(p)
  BY <1>1, <1>3 DEF Guarded, Cautious
<1> QED
  BY <1>1, <1>2, <1>4 DEF IsPlan, IsRepair

(* Making a companion is a plan.                                           *)
LEMMA AppearIsPlan ==
    ASSUME NEW f, NEW doc, NEW e, NEW extracted, NEW o, NEW p,
           Len(p) = 3,
           p[1] = FileStep("link", e, extracted, <<>>),
           p[2] = FileStep("archive", f, NoDocument, o),
           p[3] = FileStep("replace", f, doc, o),
           doc.there, extracted.there, IsRepair(o)
    PROVE  IsPlan(p)
<1>1. /\ p[1].do = "link" /\ p[1].doc = extracted /\ p[1].otherwise = <<>>
      /\ p[2].do = "archive" /\ p[2].f = f /\ p[2].otherwise = o
      /\ p[3].do = "replace" /\ p[3].f = f /\ p[3].doc = doc /\ p[3].otherwise = o
  BY DEF FileStep
<1>2. \A i \in 1..Len(p) : i = 1 \/ i = 2 \/ i = 3
  OBVIOUS
<1>3. \A i \in 2..Len(p) : (i = 2 \/ (i = 3 /\ i - 1 = 2))
  OBVIOUS
<1>4. Guarded(p)
  BY <1>1, <1>3 DEF Guarded
<1> QED
  BY <1>1, <1>2, <1>4, EmptyIsFine DEF IsPlan

(* Removing a companion is a plan.                                         *)
LEMMA DisappearIsPlan ==
    ASSUME NEW f, NEW doc, NEW e, NEW o, NEW p,
           Len(p) = 4,
           p[1] = FileStep("archive", f, NoDocument, <<>>),
           p[2] = FileStep("replace", f, doc, <<>>),
           p[3] = FileStep("archive", e, NoDocument, o),
           p[4] = FileStep("unlink", e, NoDocument, o),
           doc.there, IsRepair(o)
    PROVE  IsPlan(p)
<1>1. /\ p[1].do = "archive" /\ p[1].f = f /\ p[1].otherwise = <<>>
      /\ p[2].do = "replace" /\ p[2].f = f /\ p[2].doc = doc /\ p[2].otherwise = <<>>
      /\ p[3].do = "archive" /\ p[3].f = e /\ p[3].otherwise = o
      /\ p[4].do = "unlink" /\ p[4].f = e /\ p[4].otherwise = o
  BY DEF FileStep
<1>2. \A i \in 1..Len(p) : i = 1 \/ i = 2 \/ i = 3 \/ i = 4
  OBVIOUS
<1>3. \A i \in 2..Len(p) : (i = 2 /\ i - 1 = 1) \/ (i = 3 /\ i - 1 = 2) \/ (i = 4 /\ i - 1 = 3)
  OBVIOUS
<1>4. Guarded(p)
  BY <1>1, <1>3 DEF Guarded
<1> QED
  BY <1>1, <1>2, <1>4, EmptyIsFine DEF IsPlan

(* The rest of a plan.                                                     *)
LEMMA Rest ==
    ASSUME NEW S, NEW p \in Seq(S), p # <<>>
    PROVE  /\ Tail(p) \in Seq(S) /\ Len(p) \in Nat /\ Len(p) > 0
           /\ Len(Tail(p)) = Len(p) - 1
           /\ \A i \in 1..Len(Tail(p)) : i + 1 \in 2..Len(p) /\ Tail(p)[i] = p[i + 1]
           /\ Head(p) = p[1] /\ 1 \in 1..Len(p) /\ p[1] \in S
OBVIOUS

(* The rest of a plan is a plan, apart from what its first step was guarding.*)
LEMMA RestIsPlan ==
    ASSUME NEW p \in Seq(Steps), p # <<>>, IsPlan(p)
    PROVE  IsPlan(Tail(p))
<1> DEFINE q == Tail(p)
<1>1. /\ q \in Seq(Steps) /\ Len(p) \in Nat /\ Len(p) > 0
      /\ Len(q) = Len(p) - 1
      /\ \A i \in 1..Len(q) : i + 1 \in 2..Len(p) /\ q[i] = p[i + 1]
  BY Rest, Zenon
<1> HIDE DEF q
<1>2. Guarded(q)
  <2> SUFFICES ASSUME NEW i \in 2..Len(q), q[i].do \in {"replace", "unlink"}
               PROVE  q[i - 1].do = "archive" /\ q[i - 1].f = q[i].f
    BY DEF Guarded
  <2>1. i \in 1..Len(q) /\ i - 1 \in 1..Len(q) /\ (i - 1) + 1 = i /\ (i + 1) - 1 = i
        /\ i + 1 \in 2..Len(p)
    BY <1>1
  <2>2. q[i] = p[i + 1] /\ q[i - 1] = p[i]
    BY <1>1, <2>1
  <2> QED
    BY <2>1, <2>2 DEF IsPlan, Guarded
<1>3. ASSUME NEW i \in 1..Len(q)
      PROVE  /\ q[i].do = "unlink" => i = Len(q)
             /\ q[i].do \in {"replace", "link"} => q[i].doc.there
             /\ IsRepair(q[i].otherwise)
  <2>1. i + 1 \in 1..Len(p) /\ q[i] = p[i + 1] /\ (i + 1 = Len(p) => i = Len(q))
    BY <1>1
  <2> QED
    BY <2>1 DEF IsPlan
<1> QED
  BY <1>2, <1>3 DEF IsPlan, q

(* A repair is a plan whose steps have no repair.                          *)
LEMMA RepairIsPlan ==
    ASSUME NEW o \in Seq(RepairSteps), IsRepair(o)
    PROVE  o \in Seq(Steps) /\ IsPlan(o) /\ \A k \in 1..Len(o) : o[k].otherwise = <<>>
<1>0. <<>> \in Seq(RepairSteps)
  OBVIOUS
<1>1. RepairSteps \subseteq FileSteps
  <2> SUFFICES ASSUME NEW s \in RepairSteps PROVE s \in FileSteps
    OBVIOUS
  <2>1. s.otherwise \in Seq(RepairSteps)
    BY <1>0 DEF RepairSteps
  <2> DEFINE R == Seq(RepairSteps)
  <2> HIDE DEF R
  <2>2. FileSteps = [do: {"archive", "replace", "unlink", "link"}, f: Functions, doc: Docs, otherwise: R]
    BY DEF FileSteps, R
  <2>3. s.otherwise \in R
    BY <2>1 DEF R
  <2> QED
    BY <2>2, <2>3 DEF RepairSteps
<1>2. o \in Seq(Steps)
  BY <1>1 DEF Steps
<1>3. \A k \in 1..Len(o) : o[k] \in RepairSteps
  OBVIOUS
<1>4. \A k \in 1..Len(o) : o[k].otherwise = <<>> /\ o[k].do \in {"archive", "replace", "unlink"}
  BY <1>3 DEF RepairSteps
<1> QED
  BY <1>2, <1>4, EmptyIsFine DEF IsRepair, IsPlan

-----------------------------------------------------------------------------
\* What an operation may begin with.
IsFit(w) == w \in Works /\ IsWork(w) /\ IsReady(w.todo)

(* No document is a value of a file, and of an entry.                      *)
LEMMA NothingIsFit ==
    ASSUME NEW d, d = NoDocument
    PROVE  d \in Docs /\ ~d.there /\ d.refs = {} /\ Former(d) \in Entries
BY DEF NoDocument, Docs, Former, Entries

(* A thread may have nothing to do.                                        *)
LEMMA IdleIsFit == IsFit(NoWork)
<1>1. Former(NoDocument) \in Entries
  BY NothingIsFit, Zenon
<1>2. NoWork.todo = <<>> /\ NoWork.then = "nothing" /\ NoWork.f = Entry /\ NoWork.entry = Former(NoDocument)
  BY DEF NoWork
<1>3. <<>> \in Seq(Steps) /\ Entry \in Functions
  BY ProgramAssumption
<1>4. NoWork \in Works
  BY <1>1, <1>3 DEF NoWork, Works, Thens
<1> QED
  BY <1>2, <1>4, EmptyIsFine DEF IsFit, IsWork, IsReady, Remembers

(* A thread may begin to save.                                             *)
LEMMA SaveIsFit ==
    ASSUME StoreTypes,
           NEW f \in Functions, documents[f].there,
           NEW doc \in Docs, doc.there,
           NEW then \in {"edited", "undone", "redone", "restored"},
           NEW entry \in Entries, then \in Remembers => Lasting(entry),
           NEW w, w = [todo |-> SavePlan(f, doc, <<>>), then |-> then, f |-> f, entry |-> entry]
    PROVE  IsFit(w)
<1> DEFINE p == SavePlan(f, doc, <<>>)
<1>1. Len(p) = 2 /\ p[1] = FileStep("archive", f, NoDocument, <<>>)
      /\ p[2] = FileStep("replace", f, doc, <<>>)
  BY SaveSteps, Zenon
<1>2. <<>> \in Seq(RepairSteps) /\ NoDocument \in Docs
  BY NothingIsFit
<1>3. p \in Seq(Steps)
  BY <1>2 DEF SavePlan, FileStep, FileSteps, Steps
<1> HIDE DEF p
<1>4. IsPlan(p)
  BY <1>1, PairIsPlan, EmptyIsFine
<1>5. w.todo = p /\ w.then = then /\ w.entry = entry
  BY DEF p
<1>6. w \in Works
  BY <1>3 DEF Works, Thens, p
<1>7. /\ p[1].do = "archive" /\ p[1].f = f /\ p[1].otherwise = <<>>
      /\ p[2].do = "replace" /\ p[2].f = f /\ p[2].otherwise = <<>>
  BY <1>1 DEF FileStep
<1>8. \A i \in 1..Len(p) : i = 1 \/ i = 2
  BY <1>1
<1>9. IsWork(w)
  BY <1>1, <1>4, <1>5, <1>7, <1>8 DEF IsWork
<1>10. IsReady(p)
  BY <1>1, <1>7, <1>8 DEF IsReady, There
<1> QED
  BY <1>5, <1>6, <1>9, <1>10 DEF IsFit

(* A thread may begin to delete.                                           *)
LEMMA DeleteIsFit ==
    ASSUME StoreTypes,
           NEW f \in Functions, documents[f].there,
           NEW w, w = [todo |-> DeletePlan(f, <<>>), then |-> "deleted", f |-> f,
                       entry |-> Former(NoDocument)]
    PROVE  IsFit(w)
<1> DEFINE p == DeletePlan(f, <<>>)
<1>1. Len(p) = 2 /\ p[1] = FileStep("archive", f, NoDocument, <<>>)
      /\ p[2] = FileStep("unlink", f, NoDocument, <<>>)
  BY DeleteSteps, Zenon
<1>2. <<>> \in Seq(RepairSteps) /\ NoDocument \in Docs /\ Former(NoDocument) \in Entries
  BY NothingIsFit
<1>3. p \in Seq(Steps)
  BY <1>2 DEF DeletePlan, FileStep, FileSteps, Steps
<1> HIDE DEF p
<1>4. IsPlan(p)
  BY <1>1, PairIsPlan, EmptyIsFine
<1>5. w.todo = p /\ w.then = "deleted"
  BY DEF p
<1>6. w \in Works
  BY <1>2, <1>3 DEF Works, Thens, p
<1>7. /\ p[1].do = "archive" /\ p[1].f = f /\ p[1].otherwise = <<>>
      /\ p[2].do = "unlink" /\ p[2].f = f /\ p[2].otherwise = <<>>
  BY <1>1 DEF FileStep
<1>8. \A i \in 1..Len(p) : i = 1 \/ i = 2
  BY <1>1
<1>9. IsWork(w)
  BY <1>1, <1>4, <1>5, <1>7, <1>8 DEF IsWork, Remembers
<1>10. IsReady(p)
  BY <1>1, <1>7, <1>8 DEF IsReady, There
<1> QED
  BY <1>5, <1>6, <1>9, <1>10 DEF IsFit

(* A thread may begin to create.                                           *)
LEMMA CreateIsFit ==
    ASSUME NEW f \in Functions,
           NEW doc \in Docs, doc.there,
           NEW w, w = [todo |-> CreatePlan(f, doc), then |-> "nothing", f |-> f,
                       entry |-> Former(NoDocument)]
    PROVE  IsFit(w)
<1> DEFINE p == CreatePlan(f, doc)
<1>1. Len(p) = 1 /\ p[1] = FileStep("link", f, doc, <<>>)
  BY DEF CreatePlan
<1>2. <<>> \in Seq(RepairSteps) /\ Former(NoDocument) \in Entries
  BY NothingIsFit
<1>3. p \in Seq(Steps)
  BY <1>2 DEF CreatePlan, FileStep, FileSteps, Steps
<1> HIDE DEF p
<1>5. w.todo = p /\ w.then = "nothing"
  BY DEF p
<1>6. w \in Works
  BY <1>2, <1>3 DEF Works, Thens, p
<1>7. p[1].do = "link" /\ p[1].doc = doc /\ p[1].otherwise = <<>>
  BY <1>1 DEF FileStep
<1>8. (\A i \in 1..Len(p) : i = 1) /\ (\A i \in 2..Len(p) : FALSE)
  BY <1>1
<1>4. IsPlan(p)
  BY <1>1, <1>7, <1>8, EmptyIsFine DEF IsPlan, Guarded
<1>9. IsWork(w)
  BY <1>1, <1>4, <1>5, <1>7, <1>8 DEF IsWork, Remembers
<1>10. IsReady(p)
  BY <1>1, <1>7, <1>8 DEF IsReady, There
<1> QED
  BY <1>5, <1>6, <1>9, <1>10 DEF IsFit

(* A thread may begin to make a companion.                                 *)
LEMMA AppearIsFit ==
    ASSUME StoreTypes,
           NEW f \in Functions, documents[f].there,
           NEW doc \in Docs, doc.there,
           NEW e \in Functions, NEW extracted \in Docs, extracted.there,
           NEW then \in {"edited", "undone", "redone"},
           NEW entry \in Entries, Lasting(entry),
           NEW w, w = [todo |-> CompanionPlan(f, doc, e, extracted, TRUE), then |-> then, f |-> f,
                       entry |-> entry]
    PROVE  IsFit(w)
<1> DEFINE p == CompanionPlan(f, doc, e, extracted, TRUE)
           o == DeletePlan(e, <<>>)
<1>0. Appears(p, f, doc, e, extracted, o)
  BY AppearSteps, Zenon
<1>2. Len(o) = 2 /\ o[1] = FileStep("archive", e, NoDocument, <<>>)
      /\ o[2] = FileStep("unlink", e, NoDocument, <<>>)
  BY DeleteSteps, Zenon
<1> HIDE DEF p, o
<1>1. p \in Seq(FileSteps) /\ Len(p) = 3
      /\ p[1] = FileStep("link", e, extracted, <<>>)
      /\ p[2] = FileStep("archive", f, NoDocument, o)
      /\ p[3] = FileStep("replace", f, doc, o)
  BY <1>0, Zenon DEF Appears
<1>3. p \in Seq(Steps)
  BY <1>1 DEF Steps
<1>4. IsRepair(o)
  BY <1>2, PairIsPlan, EmptyIsFine
<1>5. IsPlan(p)
  BY <1>1, <1>4, AppearIsPlan
<1>6. w.todo = p /\ w.then = then /\ w.entry = entry
  BY DEF p
<1>7. w \in Works
  BY <1>3 DEF Works, Thens, p
<1>8. /\ p[1].do = "link" /\ p[1].f = e /\ p[1].otherwise = <<>>
      /\ p[2].do = "archive" /\ p[2].f = f /\ p[2].otherwise = o
      /\ p[3].do = "replace" /\ p[3].f = f /\ p[3].otherwise = o
      /\ o[1].f = e /\ o[2].do = "unlink"
  BY <1>1, <1>2 DEF FileStep
<1>9. /\ \A i \in 1..Len(p) : i = 1 \/ i = 2 \/ i = 3
      /\ \A k \in 1..Len(o) : k = 1 \/ k = 2
  BY <1>1, <1>2
<1>10. IsWork(w)
  BY <1>1, <1>5, <1>6, <1>8, <1>9 DEF IsWork
<1>11. There(p, 2, e) /\ There(p, 3, e) /\ There(p, 2, f)
  <2>1. 1 \in 1..(2 - 1) /\ 1 \in 1..(3 - 1)
    OBVIOUS
  <2> QED
    BY <1>8, <2>1, Zenon DEF There
<1>12. ASSUME NEW i \in 1..Len(p)
       PROVE  /\ p[i].do = "archive" => There(p, i, p[i].f)
              /\ \A k \in 1..Len(p[i].otherwise) :
                    p[i].otherwise[k].do = "archive" => There(p, i, p[i].otherwise[k].f)
  <2>1. CASE i = 1
    BY <2>1, <1>8
  <2>2. CASE i = 2
    BY <2>2, <1>8, <1>9, <1>11
  <2>3. CASE i = 3
    BY <2>3, <1>8, <1>9, <1>11
  <2> QED
    BY <1>9, <2>1, <2>2, <2>3
<1>13. IsReady(p)
  BY <1>8, <1>12 DEF IsReady
<1> QED
  BY <1>6, <1>7, <1>10, <1>13 DEF IsFit

(* A thread may begin to remove a companion.                               *)
LEMMA DisappearIsFit ==
    ASSUME StoreTypes,
           NEW f \in Functions, documents[f].there,
           NEW doc \in Docs, doc.there,
           NEW e \in Functions, documents[e].there, NEW extracted,
           NEW then \in {"undone", "redone"},
           NEW entry \in Entries, Lasting(entry),
           NEW w, w = [todo |-> CompanionPlan(f, doc, e, extracted, FALSE), then |-> then, f |-> f,
                       entry |-> entry]
    PROVE  IsFit(w)
<1> DEFINE p == CompanionPlan(f, doc, e, extracted, FALSE)
           o == SavePlan(f, documents[f], <<>>)
<1>0. documents[f] \in Docs
  BY DEF StoreTypes
<1>00. Disappears(p, f, doc, e, o)
  BY <1>0, DisappearSteps, Zenon
<1>2. Len(o) = 2 /\ o[1] = FileStep("archive", f, NoDocument, <<>>)
      /\ o[2] = FileStep("replace", f, documents[f], <<>>)
  BY SaveSteps, Zenon
<1> HIDE DEF p, o
<1>1. p \in Seq(FileSteps) /\ Len(p) = 4
      /\ p[1] = FileStep("archive", f, NoDocument, <<>>)
      /\ p[2] = FileStep("replace", f, doc, <<>>)
      /\ p[3] = FileStep("archive", e, NoDocument, o)
      /\ p[4] = FileStep("unlink", e, NoDocument, o)
  BY <1>00, Zenon DEF Disappears
<1>3. p \in Seq(Steps)
  BY <1>1 DEF Steps
<1>4. IsRepair(o)
  BY <1>2, PairIsPlan, EmptyIsFine
<1>5. IsPlan(p)
  BY <1>1, <1>4, DisappearIsPlan
<1>6. w.todo = p /\ w.then = then /\ w.entry = entry
  BY DEF p
<1>7. w \in Works
  BY <1>3 DEF Works, Thens, p
<1>8. /\ p[1].do = "archive" /\ p[1].f = f /\ p[1].otherwise = <<>>
      /\ p[2].do = "replace" /\ p[2].f = f /\ p[2].otherwise = <<>>
      /\ p[3].do = "archive" /\ p[3].f = e /\ p[3].otherwise = o
      /\ p[4].do = "unlink" /\ p[4].f = e /\ p[4].otherwise = o
      /\ o[1].f = f /\ o[2].do = "replace"
  BY <1>1, <1>2 DEF FileStep
<1>9. /\ \A i \in 1..Len(p) : i = 1 \/ i = 2 \/ i = 3 \/ i = 4
      /\ \A k \in 1..Len(o) : k = 1 \/ k = 2
  BY <1>1, <1>2
<1>10. IsWork(w)
  BY <1>1, <1>5, <1>6, <1>8, <1>9 DEF IsWork
<1>11. \A i : There(p, i, e) /\ There(p, i, f)
  BY Zenon DEF There
<1>12. ASSUME NEW i \in 1..Len(p)
       PROVE  /\ p[i].do = "archive" => There(p, i, p[i].f)
              /\ \A k \in 1..Len(p[i].otherwise) :
                    p[i].otherwise[k].do = "archive" => There(p, i, p[i].otherwise[k].f)
  <2>1. CASE i = 1 \/ i = 2
    BY <2>1, <1>8, <1>11
  <2>2. CASE i = 3
    BY <2>2, <1>8, <1>9, <1>11
  <2>3. CASE i = 4
    BY <2>3, <1>8, <1>9, <1>11
  <2> QED
    BY <1>9, <2>1, <2>2, <2>3
<1>13. IsReady(p)
  BY <1>8, <1>12 DEF IsReady
<1> QED
  BY <1>6, <1>7, <1>10, <1>13 DEF IsFit

(* A thread may begin to delete a variable.                                *)
LEMMA VariableIsFit ==
    ASSUME NEW v \in Variables,
           NEW w, w = [NoWork EXCEPT !.todo = <<FileStep("variable", v, NoDocument, <<>>)>>,
                                     !.then = "variable"]
    PROVE  IsFit(w)
<1> DEFINE p == <<FileStep("variable", v, NoDocument, <<>>)>>
<1>1. Len(p) = 1 /\ p[1] = FileStep("variable", v, NoDocument, <<>>)
  OBVIOUS
<1>2. NoDocument \in Docs /\ Former(NoDocument) \in Entries
  BY NothingIsFit
<1>3. p \in Seq(Steps)
  BY <1>2 DEF FileStep, VariableSteps, Steps
<1> HIDE DEF p
<1>4. w = [todo |-> p, then |-> "variable", f |-> Entry, entry |-> Former(NoDocument)]
  BY DEF p, NoWork
<1>5. w.todo = p /\ w.then = "variable"
  BY DEF p, NoWork
<1>6. w \in Works
  BY <1>2, <1>3, <1>4, ProgramAssumption DEF Works, Thens
<1>7. p[1].do = "variable" /\ p[1].otherwise = <<>>
  BY <1>1 DEF FileStep
<1>8. (\A i \in 1..Len(p) : i = 1) /\ (\A i \in 2..Len(p) : FALSE)
  BY <1>1
<1>9. IsPlan(p)
  BY <1>1, <1>7, <1>8, EmptyIsFine DEF IsPlan, Guarded
<1>10. IsWork(w)
  BY <1>1, <1>5, <1>7, <1>8, <1>9 DEF IsWork, Remembers
<1>11. IsReady(p)
  BY <1>1, <1>7, <1>8 DEF IsReady, There
<1> QED
  BY <1>5, <1>6, <1>10, <1>11 DEF IsFit

-----------------------------------------------------------------------------
(* A new project is consistent.                                            *)
LEMMA StoreBaseInit == ProgramInit => StoreBase
<1> SUFFICES ASSUME ProgramInit PROVE StoreBase
  OBVIOUS
<1> USE DEF ProgramInit
<1>1. IsFit(NoWork) /\ NoWork.todo = <<>>
  BY IdleIsFit DEF NoWork
<1>2. NoDocument \in Docs /\ Document({}) \in Docs
  BY NothingIsFit DEF Document, Docs
<1>3. StoreTypes
  <2>1. locks \in [{"workspace", "service"} -> Requests \cup {"free"}]
    BY DEF NoLocks
  <2>2. <<>> \in Seq(Docs) /\ <<>> \in Seq(Entries)
    OBVIOUS
  <2>3. archive \in [Functions -> Seq(Docs)] /\ undos \in [Functions -> Seq(Entries)]
        /\ redos \in [Functions -> Seq(Entries)]
    BY <2>2
  <2>4. work \in [Requests -> Works] /\ documents \in [Functions -> Docs]
    BY <1>1, <1>2 DEF IsFit
  <2> QED
    BY <2>1, <2>3, <2>4 DEF StoreTypes
<1>4. \A f \in Functions :
        /\ \A n \in 1..Len(archive[f]) : archive[f][n].there
        /\ \A n \in 1..Len(undos[f]) : Lasting(undos[f][n])
        /\ \A n \in 1..Len(redos[f]) : Lasting(redos[f][n])
  OBVIOUS
<1>5. ASSUME NEW t \in Requests, NEW w \in {work[t]}
      PROVE  Sane(t, w)
  <2>1. w = NoWork
    OBVIOUS
  <2> QED
    BY <1>1, <2>1, Zenon DEF IsFit, HasLocks, Sane
<1> QED
  BY <1>3, <1>4, <1>5 DEF StoreBase

(* A thread gets new work and the locks that it needs; files stay.         *)
LEMMA BeginBase ==
    ASSUME StoreBase, NEW t \in Requests, NEW w, IsFit(w),
           work' = [work EXCEPT ![t] = w],
           UNCHANGED <<documents, variables, archive, undos, redos, wentBack, removed>>,
           locks' \in [{"workspace", "service"} -> Requests \cup {"free"}],
           HasLocks(t, w)',
           \A u \in Requests \ {t} :
              /\ locks.workspace = u => locks'.workspace = u
              /\ locks.service = u => locks'.service = u
    PROVE  StoreBase'
<1>1. StoreTypes'
  BY DEF StoreBase, StoreTypes, IsFit
<1>2. (\A f \in Functions :
         /\ \A n \in 1..Len(archive[f]) : archive[f][n].there
         /\ \A n \in 1..Len(undos[f]) : Lasting(undos[f][n])
         /\ \A n \in 1..Len(redos[f]) : Lasting(redos[f][n]))'
  BY DEF StoreBase
<1>3. ASSUME NEW u \in Requests, NEW x \in {work'[u]}
      PROVE  Sane(u, x)'
  <2>1. CASE u = t
    <3>1. x = w
      BY <2>1 DEF StoreBase, StoreTypes
    <3>2. IsReady(w.todo)'
      BY DEF IsFit, IsReady, There, Archived
    <3>3. IsWork(w) /\ HasLocks(u, w)'
      BY <2>1, Zenon DEF IsFit
    <3> QED
      BY <3>1, <3>2, <3>3 DEF Sane
  <2>2. CASE u # t
    <3>1. x \in {work[u]}
      BY <2>2 DEF StoreBase, StoreTypes
    <3>2. IsWork(x) /\ IsReady(x.todo) /\ HasLocks(u, x)
      BY <3>1, Zenon DEF StoreBase, Sane
    <3>3. IsReady(x.todo)'
      BY <3>2 DEF IsReady, There, Archived
    <3>4. HasLocks(u, x)'
      BY <3>2, <2>2 DEF HasLocks
    <3> QED
      BY <3>2, <3>3, <3>4 DEF Sane
  <2> QED
    BY <2>1, <2>2
<1> QED
  BY <1>1, <1>2, <1>3, Zenon DEF StoreBase

(* What the steps of a repair are made of.                                 *)
LEMMA RepairFields ==
    ASSUME NEW o \in Seq(RepairSteps), NEW k \in 1..Len(o)
    PROVE  /\ o[k] \in RepairSteps /\ o[k].f \in Functions /\ o[k].doc \in Docs
           /\ o[k].otherwise = <<>>
           /\ o[k].do \in {"archive", "replace", "unlink"}
<1>1. o[k] \in RepairSteps
  OBVIOUS
<1> QED
  BY <1>1 DEF RepairSteps

(* What the steps of a plan are made of.                                   *)
LEMMA StepFields ==
    ASSUME NEW s \in Steps
    PROVE  /\ s.doc \in Docs /\ s.otherwise \in Seq(RepairSteps)
           /\ s.do # "variable" => s.f \in Functions
           /\ s.do \in {"archive", "replace", "unlink", "link", "variable"}
<1>1. <<>> \in Seq(RepairSteps)
  OBVIOUS
<1> DEFINE R == Seq(RepairSteps)
<1>2. <<>> \in R
  BY <1>1
<1>3. FileSteps = [do: {"archive", "replace", "unlink", "link"}, f: Functions, doc: Docs, otherwise: R]
  BY DEF FileSteps
<1> HIDE DEF R
<1>4. s.doc \in Docs /\ s.otherwise \in R /\ (s.do # "variable" => s.f \in Functions)
      /\ s.do \in {"archive", "replace", "unlink", "link", "variable"}
  <2>1. CASE s \in FileSteps
    BY <2>1, <1>3
  <2>2. CASE s \in VariableSteps
    BY <2>2, <1>2 DEF VariableSteps
  <2> QED
    BY <2>1, <2>2 DEF Steps
<1> QED
  BY <1>4 DEF R

(* What a file operation is about.                                         *)
LEMMA StepIs ==
    ASSUME StoreBase, NEW t \in Requests, NEW w \in {work[t]}, NEW p, p = w.todo, p # <<>>,
           NEW s, s = Head(p)
    PROVE  /\ w \in Works /\ p \in Seq(Steps) /\ Sane(t, w)
           /\ s = p[1] /\ s \in Steps /\ s.doc \in Docs /\ s.otherwise \in Seq(RepairSteps)
           /\ 1 \in 1..Len(p)
           /\ s.do # "variable" => s.f \in Functions
           /\ s.do \in {"archive", "replace", "unlink", "link", "variable"}
<1>1. w \in Works /\ Sane(t, w)
  BY DEF StoreBase, StoreTypes
<1>2. p \in Seq(Steps)
  BY <1>1 DEF Works
<1>3. s = p[1] /\ s \in Steps /\ 1 \in 1..Len(p)
  BY <1>2, Rest
<1> QED
  BY <1>1, <1>2, <1>3, StepFields

(* Two requests do not work on documents at the same time.                 *)
LEMMA OthersWait ==
    ASSUME StoreBase, NEW t \in Requests, NEW u \in Requests, t # u,
           NEW w \in {work[t]}, w.todo # <<>>, w.then # "variable",
           NEW x \in {work[u]}, x.todo # <<>>
    PROVE  x.then = "variable" /\ \A i \in 1..Len(x.todo) : x.todo[i].do = "variable"
<1>1. Sane(t, w) /\ Sane(u, x)
  BY DEF StoreBase
<1>2. locks.service = t
  BY <1>1 DEF Sane, HasLocks
<1>3. x.then = "variable"
  BY <1>1, <1>2 DEF Sane, HasLocks
<1> QED
  BY <1>1, <1>3 DEF Sane, IsWork

(* What is left of a plan agrees with the files when its first step is done.*)
LEMMA RestIsReady ==
    ASSUME StoreBase, NEW t \in Requests, NEW w \in {work[t]}, NEW p, p = w.todo, p # <<>>,
           NEW s, s = Head(p), NEW q, q = Tail(p),
           documents' = CASE s.do \in {"link", "replace"} -> [documents EXCEPT ![s.f] = s.doc]
                          [] s.do = "unlink" -> [documents EXCEPT ![s.f] = NoDocument]
                          [] OTHER -> documents,
           archive' = IF s.do = "archive"
                      THEN [archive EXCEPT ![s.f] = Trimmed(Append(@, documents[s.f]))] ELSE archive
    PROVE  IsReady(q)'
<1>1. /\ p \in Seq(Steps) /\ Sane(t, w)
      /\ s = p[1] /\ s \in Steps /\ s.doc \in Docs
      /\ 1 \in 1..Len(p)
      /\ s.do # "variable" => s.f \in Functions
      /\ s.do \in {"archive", "replace", "unlink", "link", "variable"}
  BY StepIs
<1>2. /\ q \in Seq(Steps) /\ Len(p) \in Nat /\ Len(p) > 0
      /\ Len(q) = Len(p) - 1
      /\ \A i \in 1..Len(q) : i + 1 \in 2..Len(p) /\ q[i] = p[i + 1]
  BY <1>1, Rest, Zenon
<1>3. documents \in [Functions -> Docs] /\ archive \in [Functions -> Seq(Docs)]
  BY DEF StoreBase, StoreTypes
<1>4. IsPlan(p) /\ IsReady(p)
  BY <1>1 DEF Sane, IsWork
<1>5. ASSUME q # <<>>, q[1].do \in {"replace", "unlink"}
      PROVE  Archived(q[1].f)'
  <2>1. 1 \in 1..Len(q) /\ 2 \in 2..Len(p) /\ 1 + 1 = 2 /\ 2 - 1 = 1
    BY <1>2, <1>5
  <2>2. q[1] = p[2]
    BY <1>2, <2>1
  <2>3. p[1].do = "archive" /\ p[1].f = p[2].f
    BY <1>4, <1>5, <2>1, <2>2 DEF IsPlan, Guarded
  <2> DEFINE f == s.f
             h == Trimmed(Append(archive[f], documents[f]))
  <2>4. f \in Functions /\ archive[f] \in Seq(Docs) /\ documents[f] \in Docs
    BY <1>1, <1>3, <2>3
  <2>5. h # <<>> /\ h[Len(h)] = documents[f]
    <3>1. IsLonger(h, archive[f], documents[f])
      BY <2>4, HistoryIsTrimmed, Zenon
    <3> QED
      BY <3>1, Zenon DEF IsLonger
  <2>6. archive'[f] = h /\ documents' = documents
    BY <1>1, <1>3, <2>3, <2>4
  <2> QED
    BY <1>1, <2>2, <2>3, <2>5, <2>6 DEF Archived
<1>6. ASSUME NEW i \in 1..Len(q), NEW g \in Functions, There(p, i + 1, g)
      PROVE  There(q, i, g)'
  <2>1. s.do = "unlink" => FALSE
    BY <1>1, <1>2, <1>4 DEF IsPlan
  <2>2. CASE documents[g].there
    <3>1. documents'[g].there
      BY <1>1, <1>3, <1>4, <2>1, <2>2 DEF IsPlan
    <3> QED
      BY <3>1 DEF There
  <2>3. ASSUME NEW j \in 1..((i + 1) - 1), p[j].do = "link", p[j].f = g
        PROVE  There(q, i, g)'
    <3>1. CASE j = 1
      <4>1. documents'[g].there
        <5>1. s.do = "link" /\ s.f = g /\ s.doc.there
          BY <1>1, <1>4, <2>3, <3>1 DEF IsPlan
        <5>2. documents' = [documents EXCEPT ![s.f] = s.doc]
          BY <5>1
        <5> QED
          BY <5>1, <5>2, <1>3
      <4> QED
        BY <4>1 DEF There
    <3>2. CASE j # 1
      <4>1. j - 1 \in 1..(i - 1) /\ j - 1 \in 1..Len(q) /\ (j - 1) + 1 = j
        <5>1. i \in Nat /\ j \in 1..i /\ Len(q) \in Nat /\ i \in 1..Len(q)
          BY <1>2
        <5> QED
          BY <5>1, <3>2
      <4>2. q[j - 1] = p[j]
        BY <4>1, <1>2
      <4> QED
        BY <4>1, <4>2, <2>3 DEF There
    <3> QED
      BY <3>1, <3>2
  <2> QED
    BY <1>6, <2>2, <2>3 DEF There
<1>7. ASSUME NEW i \in 1..Len(q)
      PROVE  /\ q[i].do = "archive" => There(q, i, q[i].f)'
             /\ \A k \in 1..Len(q[i].otherwise) :
                   q[i].otherwise[k].do = "archive" => There(q, i, q[i].otherwise[k].f)'
  <2>1. i + 1 \in 1..Len(p) /\ q[i] = p[i + 1]
    BY <1>2
  <2>2. /\ q[i].do = "archive" => There(p, i + 1, q[i].f)
        /\ \A k \in 1..Len(q[i].otherwise) :
                   q[i].otherwise[k].do = "archive" => There(p, i + 1, q[i].otherwise[k].f)
    BY <1>4, <2>1 DEF IsReady
  <2>3. q[i] \in Steps
    BY <1>2
  <2>4. q[i].do = "archive" => q[i].f \in Functions
    BY <2>3, StepFields
  <2>5. q[i].otherwise \in Seq(RepairSteps)
    BY <2>3, StepFields
  <2>6. \A k \in 1..Len(q[i].otherwise) : q[i].otherwise[k].f \in Functions
    BY <2>5, RepairFields
  <2> QED
    BY <1>6, <2>2, <2>4, <2>6
<1> QED
  BY <1>5, <1>7 DEF IsReady

(* What is left of an operation is an operation.                           *)
LEMMA RestIsWork ==
    ASSUME StoreBase, NEW t \in Requests, NEW w \in {work[t]}, NEW p, p = w.todo, p # <<>>,
           NEW q, q = Tail(p), NEW v, v = [w EXCEPT !.todo = q]
    PROVE  /\ v \in Works /\ IsWork(v)
           /\ v.todo = q /\ v.then = w.then /\ v.f = w.f /\ v.entry = w.entry
<1>1. w \in Works /\ p \in Seq(Steps) /\ Sane(t, w)
  BY StepIs
<1>2. /\ q \in Seq(Steps) /\ Len(p) \in Nat /\ Len(p) > 0
      /\ Len(q) = Len(p) - 1
      /\ \A i \in 1..Len(q) : i + 1 \in 2..Len(p) /\ q[i] = p[i + 1]
  BY <1>1, Rest, Zenon
<1>3. v \in Works /\ v.todo = q /\ v.then = w.then /\ v.f = w.f /\ v.entry = w.entry
  BY <1>1, <1>2 DEF Works
<1>4. IsPlan(q)
  BY <1>1, RestIsPlan DEF Sane, IsWork
<1>5. ASSUME NEW i \in 1..Len(q)
      PROVE  /\ q[i].do = "variable" <=> w.then = "variable"
             /\ w.then = "restored" => q[i].otherwise = <<>>
             /\ q[i].do = "replace" /\ w.then \notin {"undone", "redone"} => i = Len(q)
  <2>1. i + 1 \in 1..Len(p) /\ q[i] = p[i + 1] /\ (i + 1 = Len(p) => i = Len(q))
    BY <1>2
  <2> QED
    BY <1>1, <2>1 DEF Sane, IsWork
<1>6. IsWork(v)
  BY <1>1, <1>3, <1>4, <1>5 DEF IsWork, Sane
<1> QED
  BY <1>3, <1>6

(* What others have to do is not concerned.                                *)
LEMMA OthersAreReady ==
    ASSUME StoreBase, NEW t \in Requests, NEW u \in Requests, t # u,
           NEW w \in {work[t]}, w.todo # <<>>,
           NEW x \in {work[u]},
           w.then = "variable" => UNCHANGED <<documents, archive>>
    PROVE  IsReady(x.todo)'
<1>1. x \in Works /\ Sane(u, x)
  BY DEF StoreBase, StoreTypes
<1>2. CASE x.todo = <<>>
  BY <1>2 DEF IsReady
<1>3. CASE w.then = "variable"
  BY <1>1, <1>3 DEF Sane, IsReady, There, Archived
<1>4. CASE w.then # "variable" /\ x.todo # <<>>
  <2>1. \A i \in 1..Len(x.todo) : x.todo[i].do = "variable"
    BY <1>4, OthersWait
  <2>2. x.todo \in Seq(Steps)
    BY <1>1 DEF Works
  <2>3. 1 \in 1..Len(x.todo)
    BY <2>2, <1>4
  <2>4. \A i \in 1..Len(x.todo) : x.todo[i].otherwise = <<>>
    <3> TAKE i \in 1..Len(x.todo)
    <3>1. x.todo[i] \in Steps
      BY <2>2
    <3>2. x.todo[i] \in VariableSteps
      BY <3>1, <2>1 DEF Steps, FileSteps
    <3> QED
      BY <3>2 DEF VariableSteps
  <2> QED
    BY <2>1, <2>3, <2>4 DEF IsReady
<1> QED
  BY <1>2, <1>3, <1>4

(* A file operation: the next step's version is in the archive when it is due.*)
LEMMA FileBase ==
    ASSUME StoreBase, NEW t \in Requests, file_operation(t)
    PROVE  StoreBase'
<1>1. PICK w \in {work[t]} : TRUE
  OBVIOUS
<1>2. PICK p : p = w.todo
  OBVIOUS
<1>3. PICK s : s = Head(p)
  OBVIOUS
<1>4. PICK q : q = Tail(p)
  OBVIOUS
<1>5. PICK v : v = [w EXCEPT !.todo = q]
  OBVIOUS
<1>6. /\ p # <<>>
      /\ s.do = "link" => ~documents[s.f].there
      /\ documents' = CASE s.do \in {"link", "replace"} -> [documents EXCEPT ![s.f] = s.doc]
                         [] s.do = "unlink" -> [documents EXCEPT ![s.f] = NoDocument]
                         [] OTHER -> documents
      /\ archive' = IF s.do = "archive"
                    THEN [archive EXCEPT ![s.f] = Trimmed(Append(@, documents[s.f]))] ELSE archive
      /\ variables' = IF s.do = "variable" THEN variables \ {s.f} ELSE variables
      /\ removed' = (removed \/ s.do \in {"unlink", "variable"})
      /\ wentBack' = (wentBack \/ (s.do = "replace" /\ w.then \in {"undone", "redone", "restored"}))
      /\ UNCHANGED <<undos, redos, locks, requests>>
  BY <1>2, <1>3, Zenon DEF file_operation
<1>7. work' = [work EXCEPT ![t] = v]
  BY <1>2, <1>4, <1>5 DEF file_operation
<1>8. /\ w \in Works /\ p \in Seq(Steps) /\ Sane(t, w)
      /\ s = p[1] /\ s \in Steps /\ s.doc \in Docs
      /\ 1 \in 1..Len(p)
      /\ s.do # "variable" => s.f \in Functions
      /\ s.do \in {"archive", "replace", "unlink", "link", "variable"}
  BY <1>2, <1>3, <1>6, StepIs
<1>9. /\ v \in Works /\ IsWork(v)
      /\ v.todo = q /\ v.then = w.then /\ v.f = w.f /\ v.entry = w.entry
  <2>1. p # <<>>
    BY <1>6
  <2> QED
    BY <1>2, <1>4, <1>5, <2>1, RestIsWork, SMTT(30)
<1>10. StoreTypes
  BY DEF StoreBase
<1>11. s.do = "archive" => Trimmed(Append(archive[s.f], documents[s.f])) \in Seq(Docs)
                          /\ IsLonger(Trimmed(Append(archive[s.f], documents[s.f])), archive[s.f], documents[s.f])
  <2>1. s.do = "archive" => archive[s.f] \in Seq(Docs) /\ documents[s.f] \in Docs
    BY <1>8, <1>10 DEF StoreTypes
  <2> QED
    BY <2>1, HistoryIsTrimmed, Zenon
<1>12. StoreTypes'
  <2>1. documents' \in [Functions -> Docs]
    BY <1>6, <1>8, <1>10, NothingIsFit DEF StoreTypes
  <2>2. archive' \in [Functions -> Seq(Docs)]
    BY <1>6, <1>8, <1>10, <1>11 DEF StoreTypes
  <2>3. work' \in [Requests -> Works]
    BY <1>7, <1>9, <1>10 DEF StoreTypes
  <2> QED
    BY <1>6, <1>10, <2>1, <2>2, <2>3 DEF StoreTypes
<1>13. ASSUME NEW f \in Functions, NEW n \in 1..Len(archive'[f])
       PROVE  archive'[f][n].there
  <2>1. CASE s.do = "archive" /\ f = s.f
    <3>1. There(p, 1, f)
      BY <1>2, <1>8, <2>1 DEF Sane, IsReady
    <3>2. documents[f].there
      BY <3>1 DEF There
    <3>3. IsLonger(archive'[f], archive[f], documents[f])
      BY <1>6, <1>8, <1>10, <1>11, <2>1 DEF StoreTypes
    <3>4. archive'[f][n] = documents[f] \/ \E m \in 1..Len(archive[f]) : archive'[f][n] = archive[f][m]
      BY <3>3, Zenon DEF IsLonger
    <3> QED
      BY <3>2, <3>4 DEF StoreBase
  <2>2. CASE ~(s.do = "archive" /\ f = s.f)
    <3>1. archive'[f] = archive[f]
      BY <1>6, <1>10, <2>2 DEF StoreTypes
    <3> QED
      BY <3>1 DEF StoreBase
  <2> QED
    BY <2>1, <2>2
<1>14. (\A f \in Functions :
         /\ \A n \in 1..Len(archive[f]) : archive[f][n].there
         /\ \A n \in 1..Len(undos[f]) : Lasting(undos[f][n])
         /\ \A n \in 1..Len(redos[f]) : Lasting(redos[f][n]))'
  BY <1>6, <1>13 DEF StoreBase
<1>15. w.then = "variable" => UNCHANGED <<documents, archive>>
  BY <1>2, <1>6, <1>8 DEF Sane, IsWork
<1>16. ASSUME NEW u \in Requests, NEW x \in {work'[u]}
       PROVE  Sane(u, x)'
  <2>1. CASE u = t
    <3>1. x = v
      BY <2>1, <1>7, <1>10 DEF StoreTypes
    <3>2. IsReady(q)'
      BY <1>2, <1>3, <1>4, <1>6, RestIsReady
    <3>3. HasLocks(t, v)'
      BY <1>2, <1>6, <1>8, <1>9 DEF Sane, HasLocks
    <3> QED
      BY <2>1, <3>1, <3>2, <3>3, <1>9 DEF Sane
  <2>2. CASE u # t
    <3>1. x \in {work[u]}
      BY <2>2, <1>7, <1>10 DEF StoreTypes
    <3>2. IsReady(x.todo)'
      BY <2>2, <3>1, <1>2, <1>6, <1>15, OthersAreReady
    <3>3. Sane(u, x)
      BY <3>1 DEF StoreBase
    <3>4. IsWork(x) /\ HasLocks(u, x)'
      BY <3>3, <1>6 DEF Sane, HasLocks
    <3> QED
      BY <3>2, <3>4 DEF Sane
  <2> QED
    BY <2>1, <2>2
<1> QED
  BY <1>12, <1>14, <1>16, Zenon DEF StoreBase

(* A file operation fails, and the repair is the work.                     *)
LEMMA FailBase ==
    ASSUME StoreBase, NEW t \in Requests, file_operation_fails(t)
    PROVE  StoreBase'
<1>1. PICK w \in {work[t]} : TRUE
  OBVIOUS
<1>2. PICK p : p = w.todo
  OBVIOUS
<1>3. PICK s : s = Head(p)
  OBVIOUS
<1>4. PICK o : o = s.otherwise
  OBVIOUS
<1>5. PICK v : v = [todo |-> o, then |-> "failed", f |-> Entry, entry |-> Former(NoDocument)]
  OBVIOUS
<1>6. p # <<>> /\ UNCHANGED <<documents, variables, archive, undos, redos, locks, requests, wentBack, removed>>
  BY <1>2, <1>3, Zenon DEF file_operation_fails
<1>7. work' = [work EXCEPT ![t] = v]
  <2>1. [NoWork EXCEPT !.todo = o, !.then = "failed"] = v
    <3>1. PICK z : z = [NoWork EXCEPT !.todo = o, !.then = "failed"]
      OBVIOUS
    <3>2. z = [todo |-> o, then |-> "failed", f |-> Entry, entry |-> Former(NoDocument)]
      BY <3>1 DEF NoWork
    <3> QED
      BY <1>5, <3>1, <3>2, Zenon
  <2>2. work' = [work EXCEPT ![t] = [NoWork EXCEPT !.todo = o, !.then = "failed"]]
    BY <1>2, <1>3, <1>4, Zenon DEF file_operation_fails
  <2> QED
    BY <2>1, <2>2, Zenon
<1>8. /\ w \in Works /\ p \in Seq(Steps) /\ Sane(t, w)
      /\ s = p[1] /\ s \in Steps /\ s.otherwise \in Seq(RepairSteps)
      /\ 1 \in 1..Len(p)
  BY <1>2, <1>3, <1>6, StepIs
<1>9. IsRepair(o) /\ o \in Seq(RepairSteps)
  BY <1>2, <1>4, <1>8 DEF Sane, IsWork, IsPlan
<1>10. o \in Seq(Steps) /\ IsPlan(o) /\ \A k \in 1..Len(o) : o[k].otherwise = <<>>
  BY <1>9, RepairIsPlan
<1>11. v.todo = o /\ v.then = "failed"
  BY <1>5
<1>12. v \in Works
  <2>1. Former(NoDocument) \in Entries
    BY NothingIsFit
  <2> QED
    BY <1>5, <1>10, <2>1, ProgramAssumption DEF Works, Thens
<1>13. \A k \in 1..Len(o) : o[k].do \in {"archive", "replace", "unlink"} /\ o[k].f \in Functions
  BY <1>9, RepairFields
<1>14. IsWork(v)
  BY <1>9, <1>10, <1>11, <1>13 DEF IsWork, IsRepair, Remembers
<1>15. ASSUME NEW k \in 1..Len(o), o[k].do = "archive"
       PROVE  There(o, k, o[k].f)
  <2>1. There(p, 1, o[k].f)
    BY <1>2, <1>4, <1>8, <1>15 DEF Sane, IsReady
  <2>2. documents[o[k].f].there
    BY <2>1 DEF There
  <2> QED
    BY <2>2 DEF There
<1>16. IsReady(o)
  <2>1. o # <<>> => o[1].do \notin {"replace", "unlink"}
    BY <1>9 DEF IsRepair, Cautious
  <2> QED
    BY <1>10, <1>15, <2>1 DEF IsReady
<1>17. o # <<>> => locks.workspace = t /\ locks.service = t
  <2>1. w.then = "variable" => o = <<>>
    <3>1. w.then = "variable" => s \in VariableSteps
      BY <1>2, <1>8 DEF Sane, IsWork, Steps, FileSteps
    <3> QED
      BY <3>1, <1>4 DEF VariableSteps
  <2>2. w.then = "restored" => o = <<>>
    BY <1>2, <1>4, <1>8 DEF Sane, IsWork
  <2> QED
    BY <1>2, <1>6, <1>8, <2>1, <2>2 DEF Sane, HasLocks
<1>18. IsFit(v)
  BY <1>11, <1>12, <1>14, <1>16 DEF IsFit
<1>19. HasLocks(t, v)'
  BY <1>6, <1>11, <1>17 DEF HasLocks
<1>20. locks' \in [{"workspace", "service"} -> Requests \cup {"free"}]
  BY <1>6 DEF StoreBase, StoreTypes
<1>21. \A u \in Requests \ {t} :
              /\ locks.workspace = u => locks'.workspace = u
              /\ locks.service = u => locks'.service = u
  BY <1>6
<1> QED
  BY <1>6, <1>7, <1>18, <1>19, <1>20, <1>21, BeginBase

(* A stack without its last entry.                                         *)
LEMMA FrontIs ==
    ASSUME NEW S, NEW s \in Seq(S)
    PROVE  /\ Front(s) \in Seq(S)
           /\ \A n \in 1..Len(Front(s)) : n \in 1..Len(s) /\ Front(s)[n] = s[n]
<1>1. Len(s) \in Nat
  OBVIOUS
<1> QED
  BY <1>1 DEF Front

(* Stacks after an operation.                                              *)
LEMMA StacksGrow ==
    ASSUME StoreBase, NEW t \in Requests, NEW w \in {work[t]}
    PROVE  /\ Undos(w) \in Seq(Entries) /\ Redos(w) \in Seq(Entries)
           /\ \A n \in 1..Len(Undos(w)) :
                 \/ w.then \in Remembers /\ Undos(w)[n] = w.entry
                 \/ \E m \in 1..Len(undos[w.f]) : Undos(w)[n] = undos[w.f][m]
           /\ \A n \in 1..Len(Redos(w)) :
                 \/ w.then \in Remembers /\ Redos(w)[n] = w.entry
                 \/ \E m \in 1..Len(redos[w.f]) : Redos(w)[n] = redos[w.f][m]
<1>1. w \in Works
  BY DEF StoreBase, StoreTypes
<1>2. w.then \in Thens /\ w.f \in Functions /\ w.entry \in Entries
  BY <1>1 DEF Works
<1>3. PICK a : a = undos[w.f]
  OBVIOUS
<1>4. PICK b : b = redos[w.f]
  OBVIOUS
<1>5. a \in Seq(Entries) /\ b \in Seq(Entries)
  BY <1>2, <1>3, <1>4 DEF StoreBase, StoreTypes
<1>6. PICK d : d = w.entry
  OBVIOUS
<1>7. d \in Entries
  BY <1>2, <1>6
<1>8. /\ Trimmed(Append(a, d)) \in Seq(Entries) /\ IsLonger(Trimmed(Append(a, d)), a, d)
      /\ Trimmed(Append(b, d)) \in Seq(Entries) /\ IsLonger(Trimmed(Append(b, d)), b, d)
  BY <1>5, <1>7, HistoryIsTrimmed, Zenon
<1>9. /\ Front(a) \in Seq(Entries) /\ \A n \in 1..Len(Front(a)) : n \in 1..Len(a) /\ Front(a)[n] = a[n]
      /\ Front(b) \in Seq(Entries) /\ \A n \in 1..Len(Front(b)) : n \in 1..Len(b) /\ Front(b)[n] = b[n]
  BY <1>5, FrontIs
<1>10. <<>> \in Seq(Entries) /\ Len(<<>>) = 0 /\ \A n \in 1..0 : FALSE
  OBVIOUS
<1>11. Undos(w) \in Seq(Entries)
       /\ \A n \in 1..Len(Undos(w)) :
             \/ w.then \in Remembers /\ Undos(w)[n] = d
             \/ \E m \in 1..Len(a) : Undos(w)[n] = a[m]
  <2>1. CASE w.then \in {"edited", "redone"}
    <3>1. Undos(w) = Trimmed(Append(a, d)) /\ w.then \in Remembers
      BY <1>3, <1>6, <2>1 DEF Undos, Remembers
    <3> QED
      BY <3>1, <1>8, Zenon DEF IsLonger
  <2>2. CASE w.then = "undone"
    <3>1. Undos(w) = Front(a)
      BY <1>3, <2>2 DEF Undos
    <3> QED
      BY <3>1, <1>9
  <2>3. CASE w.then \in {"deleted", "restored"}
    <3>1. Undos(w) = <<>>
      BY <2>3 DEF Undos
    <3> QED
      BY <3>1, <1>10
  <2>4. CASE w.then \notin {"edited", "redone", "undone", "deleted", "restored"}
    <3>1. Undos(w) = a
      BY <1>3, <2>4 DEF Undos
    <3> QED
      BY <3>1, <1>5
  <2> QED
    BY <2>1, <2>2, <2>3, <2>4
<1>12. Redos(w) \in Seq(Entries)
       /\ \A n \in 1..Len(Redos(w)) :
             \/ w.then \in Remembers /\ Redos(w)[n] = d
             \/ \E m \in 1..Len(b) : Redos(w)[n] = b[m]
  <2>1. CASE w.then = "undone"
    <3>1. Redos(w) = Trimmed(Append(b, d)) /\ w.then \in Remembers
      BY <1>4, <1>6, <2>1 DEF Redos, Remembers
    <3> QED
      BY <3>1, <1>8, Zenon DEF IsLonger
  <2>2. CASE w.then = "redone"
    <3>1. Redos(w) = Front(b)
      BY <1>4, <2>2 DEF Redos
    <3> QED
      BY <3>1, <1>9
  <2>3. CASE w.then \in {"edited", "deleted", "restored"}
    <3>1. Redos(w) = <<>>
      BY <2>3 DEF Redos
    <3> QED
      BY <3>1, <1>10
  <2>4. CASE w.then \notin {"edited", "redone", "undone", "deleted", "restored"}
    <3>1. Redos(w) = b
      BY <1>4, <2>4 DEF Redos
    <3> QED
      BY <3>1, <1>5
  <2> QED
    BY <2>1, <2>2, <2>3, <2>4
<1> QED
  BY <1>3, <1>4, <1>6, <1>11, <1>12

(* A request ends and gives its locks back.                                *)
LEMMA EndBase ==
    ASSUME StoreBase, NEW t \in Requests, request_ends(t)
    PROVE  StoreBase'
<1>1. PICK w \in {work[t]} : TRUE
  OBVIOUS
<1>2. /\ w.todo = <<>>
      /\ undos' = [undos EXCEPT ![w.f] = Undos(w)]
      /\ redos' = [redos EXCEPT ![w.f] = Redos(w)]
      /\ work' = [work EXCEPT ![t] = NoWork]
      /\ locks' = [l \in {"workspace", "service"} |-> IF locks[l] = t THEN "free" ELSE locks[l]]
      /\ UNCHANGED <<documents, variables, archive, requests, wentBack, removed>>
  BY Zenon DEF request_ends
<1>3. w \in Works /\ Sane(t, w)
  BY DEF StoreBase, StoreTypes
<1>4. /\ Undos(w) \in Seq(Entries) /\ Redos(w) \in Seq(Entries)
      /\ \A n \in 1..Len(Undos(w)) :
            \/ w.then \in Remembers /\ Undos(w)[n] = w.entry
            \/ \E m \in 1..Len(undos[w.f]) : Undos(w)[n] = undos[w.f][m]
      /\ \A n \in 1..Len(Redos(w)) :
            \/ w.then \in Remembers /\ Redos(w)[n] = w.entry
            \/ \E m \in 1..Len(redos[w.f]) : Redos(w)[n] = redos[w.f][m]
  BY StacksGrow
<1>5. w.then \in Remembers => Lasting(w.entry)
  BY <1>3 DEF Sane, IsWork
<1>6. w.f \in Functions
  BY <1>3 DEF Works
<1>7. IsFit(NoWork) /\ NoWork.todo = <<>>
  BY IdleIsFit DEF NoWork
<1>8. StoreTypes'
  <2>1. undos' \in [Functions -> Seq(Entries)] /\ redos' \in [Functions -> Seq(Entries)]
    BY <1>2, <1>4 DEF StoreBase, StoreTypes
  <2>2. work' \in [Requests -> Works]
    BY <1>2, <1>7 DEF StoreBase, StoreTypes, IsFit
  <2>3. locks' \in [{"workspace", "service"} -> Requests \cup {"free"}]
    BY <1>2 DEF StoreBase, StoreTypes
  <2> QED
    BY <1>2, <2>1, <2>2, <2>3 DEF StoreBase, StoreTypes
<1>9. ASSUME NEW f \in Functions
      PROVE  /\ \A n \in 1..Len(undos'[f]) : Lasting(undos'[f][n])
             /\ \A n \in 1..Len(redos'[f]) : Lasting(redos'[f][n])
  <2>1. CASE f = w.f
    <3>1. undos'[f] = Undos(w) /\ redos'[f] = Redos(w)
      BY <1>2, <2>1 DEF StoreBase, StoreTypes
    <3>2. /\ \A m \in 1..Len(undos[w.f]) : Lasting(undos[w.f][m])
          /\ \A m \in 1..Len(redos[w.f]) : Lasting(redos[w.f][m])
      BY <1>6 DEF StoreBase
    <3> QED
      BY <1>4, <1>5, <3>1, <3>2, Zenon
  <2>2. CASE f # w.f
    <3>1. undos'[f] = undos[f] /\ redos'[f] = redos[f]
      BY <1>2, <2>2 DEF StoreBase, StoreTypes
    <3> QED
      BY <3>1 DEF StoreBase
  <2> QED
    BY <2>1, <2>2
<1>10. (\A f \in Functions :
         /\ \A n \in 1..Len(archive[f]) : archive[f][n].there
         /\ \A n \in 1..Len(undos[f]) : Lasting(undos[f][n])
         /\ \A n \in 1..Len(redos[f]) : Lasting(redos[f][n]))'
  BY <1>2, <1>9 DEF StoreBase
<1>11. ASSUME NEW u \in Requests, NEW x \in {work'[u]}
       PROVE  Sane(u, x)'
  <2>1. CASE u = t
    <3>1. x = NoWork
      BY <2>1, <1>2 DEF StoreBase, StoreTypes
    <3>2. IsReady(<<>>)' /\ HasLocks(u, NoWork)'
      BY <1>7 DEF IsReady, HasLocks
    <3> QED
      BY <3>1, <3>2, <1>7 DEF Sane, IsFit
  <2>2. CASE u # t
    <3>1. x \in {work[u]}
      BY <2>2, <1>2 DEF StoreBase, StoreTypes
    <3>2. IsWork(x) /\ IsReady(x.todo) /\ HasLocks(u, x)
      BY <3>1, Zenon DEF StoreBase, Sane
    <3>3. IsReady(x.todo)'
      BY <3>2, <1>2 DEF IsReady, There, Archived
    <3>4. HasLocks(u, x)'
      BY <3>2, <2>2, <1>2 DEF HasLocks
    <3> QED
      BY <3>2, <3>3, <3>4 DEF Sane
  <2> QED
    BY <2>1, <2>2
<1> QED
  BY <1>8, <1>10, <1>11, Zenon DEF StoreBase

(* The process ends between two steps.                                     *)
LEMMA RestartBase ==
    ASSUME StoreBase, process_restarts
    PROVE  StoreBase'
<1> USE DEF process_restarts
<1>1. IsFit(NoWork) /\ NoWork.todo = <<>>
  BY IdleIsFit DEF NoWork
<1>2. <<>> \in Seq(Entries)
  OBVIOUS
<1>3. StoreTypes'
  <2>1. locks' \in [{"workspace", "service"} -> Requests \cup {"free"}]
    BY DEF NoLocks
  <2>2. undos' \in [Functions -> Seq(Entries)] /\ redos' \in [Functions -> Seq(Entries)]
    BY <1>2
  <2>3. work' \in [Requests -> Works]
    BY <1>1 DEF IsFit
  <2> QED
    BY <2>1, <2>2, <2>3 DEF StoreBase, StoreTypes
<1>4. (\A f \in Functions :
         /\ \A n \in 1..Len(archive[f]) : archive[f][n].there
         /\ \A n \in 1..Len(undos[f]) : Lasting(undos[f][n])
         /\ \A n \in 1..Len(redos[f]) : Lasting(redos[f][n]))'
  BY DEF StoreBase
<1>5. ASSUME NEW u \in Requests, NEW x \in {work'[u]}
      PROVE  Sane(u, x)'
  <2>1. x = NoWork
    OBVIOUS
  <2>2. IsReady(<<>>)' /\ HasLocks(u, NoWork)'
    BY <1>1 DEF IsReady, HasLocks
  <2> QED
    BY <2>1, <2>2, <1>1 DEF Sane, IsFit
<1> QED
  BY <1>3, <1>4, <1>5, Zenon DEF StoreBase

(* An operation begins with one of the plans.                              *)
LEMMA BeginsBase ==
    ASSUME StoreBase, NEW t \in Requests, NEW plan, NEW then, NEW f, NEW entry, NEW w,
           w = [todo |-> plan, then |-> then, f |-> f, entry |-> entry], IsFit(w),
           begins(t, plan, then, f, entry),
           with_workspace(t) \/ (w.then = "restored" /\ locks' = [locks EXCEPT !.service = t])
    PROVE  StoreBase'
<1>1. /\ work' = [work EXCEPT ![t] = w]
      /\ locks.service = "free"
      /\ UNCHANGED <<documents, variables, archive, undos, redos, wentBack, removed>>
  BY DEF begins
<1>2. locks \in [{"workspace", "service"} -> Requests \cup {"free"}]
  BY DEF StoreBase, StoreTypes
<1>3. \A u \in Requests : u # "free"
  BY ProgramAssumption
<1>4. CASE with_workspace(t)
  <2>1. locks.workspace = "free" /\ locks' = [workspace |-> t, service |-> t]
    BY <1>4 DEF with_workspace
  <2>2. locks' \in [{"workspace", "service"} -> Requests \cup {"free"}]
    BY <2>1
  <2>3. HasLocks(t, w)'
    BY <2>1 DEF HasLocks
  <2>4. \A u \in Requests \ {t} :
              /\ locks.workspace = u => locks'.workspace = u
              /\ locks.service = u => locks'.service = u
    BY <1>1, <1>3, <2>1
  <2> QED
    BY <1>1, <2>2, <2>3, <2>4, BeginBase
<1>5. CASE w.then = "restored" /\ locks' = [locks EXCEPT !.service = t]
  <2>1. locks' \in [{"workspace", "service"} -> Requests \cup {"free"}]
    BY <1>2, <1>5
  <2>2. HasLocks(t, w)'
    BY <1>2, <1>5 DEF HasLocks
  <2>3. \A u \in Requests \ {t} :
              /\ locks.workspace = u => locks'.workspace = u
              /\ locks.service = u => locks'.service = u
    BY <1>1, <1>2, <1>3, <1>5
  <2> QED
    BY <1>1, <2>1, <2>2, <2>3, BeginBase
<1> QED
  BY <1>4, <1>5

(* A document with these references.                                       *)
LEMMA DocumentIs ==
    ASSUME NEW refs \in SUBSET Names
    PROVE  Document(refs) \in Docs /\ Document(refs).there /\ Document(refs).refs = refs
BY DEF Document, Docs

(* An entry for a document.                                                *)
LEMMA FormerIs ==
    ASSUME NEW doc \in Docs, doc.there
    PROVE  /\ Former(doc) \in Entries /\ Lasting(Former(doc))
           /\ Former(doc).doc = doc /\ ~Former(doc).exists
<1>1. NoDocument \in Docs
  BY NothingIsFit
<1> QED
  BY <1>1 DEF Former, Entries, Lasting

(* create.                                                                 *)
LEMMA CreateBase ==
    ASSUME StoreBase, NEW t \in Requests, NEW f \in Functions, create(t, f)
    PROVE  StoreBase'
<1>1. PICK w : w = [todo |-> CreatePlan(f, Document({})), then |-> "nothing", f |-> f,
                    entry |-> Former(NoDocument)]
  OBVIOUS
<1>2. IsFit(w)
  BY <1>1, DocumentIs, CreateIsFit
<1> QED
  BY <1>1, <1>2, BeginsBase DEF create

(* Commands and rename.                                                    *)
LEMMA EditBase ==
    ASSUME StoreBase, NEW t \in Requests, NEW f \in Functions, NEW refs \in SUBSET Names,
           edit(t, f, refs)
    PROVE  StoreBase'
<1>1. PICK w : w = [todo |-> SavePlan(f, Document(refs), <<>>), then |-> "edited", f |-> f,
                    entry |-> Former(documents[f])]
  OBVIOUS
<1>2. documents[f].there /\ documents[f] \in Docs
  BY DEF edit, Existing, StoreBase, StoreTypes
<1>3. IsFit(w)
  BY <1>1, <1>2, DocumentIs, FormerIs, SaveIsFit DEF StoreBase
<1> QED
  BY <1>1, <1>3, BeginsBase DEF edit

(* extract_statements.                                                     *)
LEMMA ExtractBase ==
    ASSUME StoreBase, NEW t \in Requests, NEW f \in Functions, NEW e \in Functions,
           NEW taken \in SUBSET documents[f].refs, extract_statements(t, f, e, taken)
    PROVE  StoreBase'
<1>1. documents[f].there /\ documents[f] \in Docs /\ documents[f].refs \subseteq Names
  BY DEF extract_statements, Existing, StoreBase, StoreTypes, Docs
<1>2. PICK extracted : extracted = Document(taken)
  OBVIOUS
<1>3. PICK source : source = Document((documents[f].refs \ taken) \cup {e})
  OBVIOUS
<1>4. PICK entry : entry = [doc |-> documents[f], companion |-> {e}, extracted |-> extracted,
                            exists |-> FALSE]
  OBVIOUS
<1>5. PICK w : w = [todo |-> CompanionPlan(f, source, e, extracted, TRUE), then |-> "edited", f |-> f,
                    entry |-> entry]
  OBVIOUS
<1>6. taken \in SUBSET Names /\ (documents[f].refs \ taken) \cup {e} \in SUBSET Names
  BY <1>1 DEF Names
<1>7. extracted \in Docs /\ extracted.there /\ source \in Docs /\ source.there
  BY <1>2, <1>3, <1>6, DocumentIs
<1>8. entry \in Entries /\ Lasting(entry)
  BY <1>1, <1>4, <1>7 DEF Entries, Lasting
<1>9. IsFit(w)
  BY <1>1, <1>5, <1>7, <1>8, AppearIsFit DEF StoreBase
<1>10. begins(t, CompanionPlan(f, source, e, extracted, TRUE), "edited", f, entry) /\ with_workspace(t)
  BY <1>2, <1>3, <1>4, Zenon DEF extract_statements
<1> QED
  BY <1>5, <1>9, <1>10, BeginsBase

(* Undo and redo.                                                          *)
LEMMA GoBackBase ==
    ASSUME StoreBase, NEW t \in Requests, NEW f \in Functions, NEW then \in {"undone", "redone"},
           NEW stack \in {undos[f], redos[f]}, go_back(t, f, stack, then)
    PROVE  StoreBase'
<1>1. documents[f].there /\ documents[f] \in Docs /\ stack \in Seq(Entries) /\ stack # <<>>
      /\ \A n \in 1..Len(stack) : Lasting(stack[n])
  BY DEF go_back, Existing, StoreBase, StoreTypes
<1>2. PICK entry : entry = stack[Len(stack)]
  OBVIOUS
<1>3. entry \in Entries /\ Lasting(entry)
  BY <1>1, <1>2
<1>4. entry.doc \in Docs /\ entry.doc.there /\ entry.extracted \in Docs /\ entry.exists \in BOOLEAN
      /\ entry.companion \subseteq Functions
  BY <1>3 DEF Entries, Lasting
<1>5. CASE entry.companion = {}
  <2>1. PICK now : now = [entry EXCEPT !.doc = documents[f]]
    OBVIOUS
  <2>2. now \in Entries /\ Lasting(now)
    BY <1>1, <1>3, <1>5, <2>1 DEF Entries, Lasting
  <2>3. PICK w : w = [todo |-> SavePlan(f, entry.doc, <<>>), then |-> then, f |-> f, entry |-> now]
    OBVIOUS
  <2>4. IsFit(w)
    BY <1>1, <1>4, <2>2, <2>3, SaveIsFit DEF StoreBase
  <2>5. begins(t, SavePlan(f, entry.doc, <<>>), then, f, now) /\ with_workspace(t)
    BY <1>2, <1>5, <2>1, Zenon DEF go_back
  <2> QED
    BY <2>3, <2>4, <2>5, BeginsBase
<1>6. CASE entry.companion # {}
  <2>0. PICK e \in entry.companion :
          /\ ~entry.exists => documents[e] = entry.extracted
          /\ begins(t, CompanionPlan(f, entry.doc, e, entry.extracted, entry.exists), then, f,
                    [entry EXCEPT !.doc = documents[f], !.exists = ~@])
    BY <1>2, <1>6, Zenon DEF go_back
  <2>1. PICK now : now = [entry EXCEPT !.doc = documents[f], !.exists = ~@]
    OBVIOUS
  <2>2. now \in Entries /\ Lasting(now)
    BY <1>1, <1>3, <2>1 DEF Entries, Lasting
  <2>3. PICK w : w = [todo |-> CompanionPlan(f, entry.doc, e, entry.extracted, entry.exists),
                      then |-> then, f |-> f, entry |-> now]
    OBVIOUS
  <2>4. e \in Functions /\ entry.extracted.there
    BY <1>3, <1>4 DEF Lasting
  <2>5. IsFit(w)
    <3>1. CASE entry.exists
      <4>1. w = [todo |-> CompanionPlan(f, entry.doc, e, entry.extracted, TRUE),
                 then |-> then, f |-> f, entry |-> now]
        BY <1>4, <2>3, <3>1
      <4> QED
        BY <1>1, <1>4, <2>2, <2>4, <4>1, AppearIsFit DEF StoreBase
    <3>2. CASE ~entry.exists
      <4>1. w = [todo |-> CompanionPlan(f, entry.doc, e, entry.extracted, FALSE),
                 then |-> then, f |-> f, entry |-> now]
        BY <1>4, <2>3, <3>2
      <4>2. documents[e].there
        BY <2>0, <2>4, <3>2
      <4> QED
        BY <1>1, <1>4, <2>2, <2>4, <4>1, <4>2, DisappearIsFit DEF StoreBase
    <3> QED
      BY <3>1, <3>2
  <2>6. begins(t, CompanionPlan(f, entry.doc, e, entry.extracted, entry.exists), then, f, now)
        /\ with_workspace(t)
    BY <2>0, <2>1, Zenon DEF go_back
  <2> QED
    BY <2>3, <2>5, <2>6, BeginsBase
<1> QED
  BY <1>5, <1>6

(* delete.                                                                 *)
LEMMA DeleteBase ==
    ASSUME StoreBase, NEW t \in Requests, NEW f \in Functions, delete(t, f)
    PROVE  StoreBase'
<1>1. PICK w : w = [todo |-> DeletePlan(f, <<>>), then |-> "deleted", f |-> f,
                    entry |-> Former(NoDocument)]
  OBVIOUS
<1>2. documents[f].there
  BY DEF delete, Existing
<1>3. IsFit(w)
  BY <1>1, <1>2, DeleteIsFit DEF StoreBase
<1> QED
  BY <1>1, <1>3, BeginsBase DEF delete

(* restore_history, with the service's lock only.                          *)
LEMMA RestoreBase ==
    ASSUME StoreBase, NEW t \in Requests, NEW f \in Functions, NEW n \in DOMAIN archive[f],
           restore_history(t, f, n)
    PROVE  StoreBase'
<1>1. documents[f].there /\ archive[f] \in Seq(Docs)
  BY DEF restore_history, Existing, StoreBase, StoreTypes
<1>2. n \in 1..Len(archive[f])
  BY <1>1
<1>3. archive[f][n] \in Docs /\ archive[f][n].there
  BY <1>1, <1>2 DEF StoreBase
<1>4. PICK w : w = [todo |-> SavePlan(f, archive[f][n], <<>>), then |-> "restored", f |-> f,
                    entry |-> Former(NoDocument)]
  OBVIOUS
<1>5. Former(NoDocument) \in Entries
  BY NothingIsFit
<1>6. IsFit(w)
  BY <1>1, <1>3, <1>4, <1>5, SaveIsFit DEF StoreBase, Remembers
<1>7. w.then = "restored"
  BY <1>4
<1> QED
  BY <1>4, <1>6, <1>7, BeginsBase DEF restore_history

(* delete_variable, with the workspace's lock only.                        *)
LEMMA DeleteVariableBase ==
    ASSUME StoreBase, NEW t \in Requests, NEW v \in Variables, delete_variable(t, v)
    PROVE  StoreBase'
<1>1. PICK w : w = [NoWork EXCEPT !.todo = <<FileStep("variable", v, NoDocument, <<>>)>>,
                                  !.then = "variable"]
  OBVIOUS
<1>2. IsFit(w) /\ w.then = "variable"
  <2>1. IsFit(w)
    BY <1>1, VariableIsFit
  <2> QED
    BY <1>1, <2>1 DEF NoWork
<1>3. locks \in [{"workspace", "service"} -> Requests \cup {"free"}] /\ work \in [Requests -> Works]
  BY DEF StoreBase, StoreTypes
<1>4. work' = [work EXCEPT ![t] = w]
  BY <1>1, <1>3 DEF delete_variable
<1>5. locks.workspace = "free" /\ locks' = [locks EXCEPT !.workspace = t]
  BY DEF delete_variable
<1>6. locks' \in [{"workspace", "service"} -> Requests \cup {"free"}]
  BY <1>3, <1>5
<1>7. HasLocks(t, w)'
  BY <1>2, <1>3, <1>5 DEF HasLocks
<1>8. \A u \in Requests \ {t} :
              /\ locks.workspace = u => locks'.workspace = u
              /\ locks.service = u => locks'.service = u
  BY <1>3, <1>5, ProgramAssumption
<1>9. UNCHANGED <<documents, variables, archive, undos, redos, wentBack, removed>>
  BY DEF delete_variable
<1> QED
  BY <1>2, <1>4, <1>6, <1>7, <1>8, <1>9, BeginBase

(* Every step keeps the store consistent.                                  *)
LEMMA StoreBaseNext ==
    ASSUME StoreBase, [ProgramNext]_programVars
    PROVE  StoreBase'
<1>1. CASE UNCHANGED programVars
  <2>1. ASSUME NEW u \in Requests, NEW x \in {work'[u]}
        PROVE  Sane(u, x)'
    <3>1. x \in {work[u]} /\ UNCHANGED <<documents, archive, locks>>
      BY <1>1 DEF programVars
    <3>2. IsWork(x) /\ IsReady(x.todo) /\ HasLocks(u, x)
      BY <3>1, Zenon DEF StoreBase, Sane
    <3>3. IsReady(x.todo)'
      BY <3>1, <3>2 DEF IsReady, There, Archived
    <3>4. HasLocks(u, x)'
      BY <3>1, <3>2 DEF HasLocks
    <3> QED
      BY <3>2, <3>3, <3>4 DEF Sane
  <2>2. StoreTypes'
    BY <1>1 DEF programVars, StoreBase, StoreTypes
  <2>3. (\A f \in Functions :
         /\ \A n \in 1..Len(archive[f]) : archive[f][n].there
         /\ \A n \in 1..Len(undos[f]) : Lasting(undos[f][n])
         /\ \A n \in 1..Len(redos[f]) : Lasting(redos[f][n]))'
    BY <1>1 DEF programVars, StoreBase
  <2> QED
    BY <2>1, <2>2, <2>3, Zenon DEF StoreBase
<1>2. CASE process_restarts
  BY <1>2, RestartBase
<1>3. ASSUME NEW t \in Requests, NEW f \in Functions, create(t, f) PROVE StoreBase'
  BY <1>3, CreateBase
<1>4. ASSUME NEW t \in Requests, NEW f \in Functions, delete(t, f) PROVE StoreBase'
  BY <1>4, DeleteBase
<1>5. ASSUME NEW t \in Requests, NEW f \in Functions, undo_edit(t, f) PROVE StoreBase'
  BY <1>5, GoBackBase DEF undo_edit
<1>6. ASSUME NEW t \in Requests, NEW f \in Functions, redo_edit(t, f) PROVE StoreBase'
  BY <1>6, GoBackBase DEF redo_edit
<1>7. ASSUME NEW t \in Requests, NEW f \in Functions, NEW name \in Names, apply_command(t, f, name)
      PROVE  StoreBase'
  <2>1. documents[f].refs \subseteq Names
    BY DEF StoreBase, StoreTypes, Docs
  <2>2. PICK refs : refs = IF name \in documents[f].refs THEN documents[f].refs \ {name}
                           ELSE documents[f].refs \cup {name}
    OBVIOUS
  <2>3. refs \in SUBSET Names
    BY <2>1, <2>2
  <2>4. edit(t, f, refs)
    BY <1>7, <2>2 DEF apply_command
  <2> QED
    BY <2>3, <2>4, EditBase
<1>8. ASSUME NEW t \in Requests, NEW f \in Functions, NEW refs \in SUBSET Names, apply_commands(t, f, refs)
      PROVE  StoreBase'
  BY <1>8, EditBase DEF apply_commands
<1>9. ASSUME NEW t \in Requests, NEW f \in Functions, rename(t, f) PROVE StoreBase'
  <2>1. documents[f].refs \in SUBSET Names
    BY DEF StoreBase, StoreTypes, Docs
  <2> QED
    BY <1>9, <2>1, EditBase DEF rename
<1>10. ASSUME NEW t \in Requests, NEW f \in Functions, NEW e \in Functions,
              NEW taken \in SUBSET documents[f].refs, extract_statements(t, f, e, taken)
       PROVE  StoreBase'
  BY <1>10, ExtractBase
<1>11. ASSUME NEW t \in Requests, NEW f \in Functions, NEW n \in DOMAIN archive[f],
              restore_history(t, f, n)
       PROVE  StoreBase'
  BY <1>11, RestoreBase
<1>12. ASSUME NEW t \in Requests, NEW v \in Variables, delete_variable(t, v) PROVE StoreBase'
  BY <1>12, DeleteVariableBase
<1>13. ASSUME NEW t \in Requests,
              file_operation(t) \/ file_operation_fails(t) \/ request_ends(t)
       PROVE  StoreBase'
  BY <1>13, FileBase, FailBase, EndBase
<1> QED
  BY <1>1, <1>2, <1>3, <1>4, <1>5, <1>6, <1>7, <1>8, <1>9, <1>10, <1>11, <1>12, <1>13, Zenon
  DEF ProgramNext

(* Plans agree with the files: what replaces or removes a document comes after*)
(* the step that archives it, in repairs too; no two requests work on documents*)
(* at the same time, and what goes to a stack is a document.               *)
THEOREM StoreIsConsistent == ProgramSpec => []StoreBase
<1>1. ProgramInit => StoreBase
  BY StoreBaseInit
<1>2. StoreBase /\ [ProgramNext]_programVars => StoreBase'
  BY StoreBaseNext
<1> QED
  BY <1>1, <1>2, PTL DEF ProgramSpec

(* Documents change in file operations only, and what goes has been kept.  *)
LEMMA ArchivedFirst ==
    ASSUME StoreBase, [ProgramNext]_programVars, NEW f \in Functions,
           documents[f].there, documents'[f] # documents[f]
    PROVE  archive[f] # <<>> /\ archive[f][Len(archive[f])] = documents[f]
<1>1. PICK t \in Requests : file_operation(t)
  <2>1. documents' # documents
    OBVIOUS
  <2>2. ASSUME NEW t \in Requests, NEW plan, NEW then, NEW g, NEW entry, begins(t, plan, then, g, entry)
        PROVE  FALSE
    BY <2>1, <2>2 DEF begins
  <2>3. ASSUME NEW t \in Requests, NEW g \in Functions, NEW refs, edit(t, g, refs) PROVE FALSE
    BY <2>2, <2>3, Zenon DEF edit
  <2>4. ASSUME NEW t \in Requests, NEW g \in Functions, NEW stack, NEW then, go_back(t, g, stack, then)
        PROVE  FALSE
    BY <2>2, <2>4, Zenon DEF go_back
  <2>5. ASSUME NEW t \in Requests, NEW g \in Functions,
               \/ create(t, g) \/ delete(t, g) \/ undo_edit(t, g) \/ redo_edit(t, g)
               \/ \E name \in Names : apply_command(t, g, name)
               \/ \E refs \in SUBSET Names : apply_commands(t, g, refs)
               \/ rename(t, g)
               \/ \E e \in Functions : \E taken \in SUBSET documents[g].refs :
                    extract_statements(t, g, e, taken)
               \/ \E n \in DOMAIN archive[g] : restore_history(t, g, n)
        PROVE  FALSE
    BY <2>2, <2>3, <2>4, <2>5, Zenon DEF create, delete, undo_edit, redo_edit, apply_command,
       apply_commands, rename, extract_statements, restore_history
  <2>6. ASSUME NEW t \in Requests,
               \/ \E v \in Variables : delete_variable(t, v)
               \/ file_operation_fails(t) \/ request_ends(t)
        PROVE  FALSE
    BY <2>1, <2>6 DEF delete_variable, file_operation_fails, request_ends
  <2>7. ~process_restarts /\ ~UNCHANGED programVars
    BY <2>1 DEF process_restarts, programVars
  <2> QED
    BY <2>5, <2>6, <2>7, Zenon DEF ProgramNext
<1>2. PICK w \in {work[t]} : TRUE
  OBVIOUS
<1>3. PICK p : p = w.todo
  OBVIOUS
<1>4. PICK s : s = Head(p)
  OBVIOUS
<1>5. /\ p # <<>>
      /\ s.do = "link" => ~documents[s.f].there
      /\ documents' = CASE s.do \in {"link", "replace"} -> [documents EXCEPT ![s.f] = s.doc]
                         [] s.do = "unlink" -> [documents EXCEPT ![s.f] = NoDocument]
                         [] OTHER -> documents
  BY <1>1, <1>3, <1>4, Zenon DEF file_operation
<1>6. /\ Sane(t, w) /\ s = p[1]
      /\ s.do \in {"archive", "replace", "unlink", "link", "variable"}
  BY <1>3, <1>4, <1>5, StepIs
<1>7. s.do \in {"link", "replace", "unlink"} /\ f = s.f
  BY <1>5, <1>6 DEF StoreBase, StoreTypes
<1>8. s.do \in {"replace", "unlink"}
  BY <1>5, <1>7
<1> QED
  BY <1>3, <1>5, <1>6, <1>7, <1>8 DEF Sane, IsReady, Archived

(* No version is replaced or removed, by an operation or by the repair of one*)
(* that failed, unless it is the newest one in the function's history: whatever*)
(* fails, wherever the process ends, for every limit of the history.       *)
THEOREM ReplacedIsKept == ProgramSpec => ReplacedIsArchived
<1>1. StoreBase /\ [ProgramNext]_programVars
      => [\A f \in Functions :
            documents[f].there /\ documents'[f] # documents[f] =>
                archive[f] # <<>> /\ archive[f][Len(archive[f])] = documents[f]]_programVars
  BY ArchivedFirst
<1> QED
  BY <1>1, StoreIsConsistent, PTL DEF ProgramSpec, ReplacedIsArchived

-----------------------------------------------------------------------------
(* A plan that saves a document whose references are there.                *)
LEMMA SaveIsSettled ==
    ASSUME NEW f \in Functions, NEW doc, NEW then, NEW entry,
           (removed => then \notin Returns) => doc.refs \subseteq Known,
           ~removed => entry.doc.refs \subseteq Known, ~entry.exists,
           NEW w, w = [todo |-> SavePlan(f, doc, <<>>), then |-> then, f |-> f, entry |-> entry]
    PROVE  Settled(w)
<1>1. PICK p : p = SavePlan(f, doc, <<>>)
  OBVIOUS
<1>2. Len(p) = 2 /\ p[1] = FileStep("archive", f, NoDocument, <<>>)
      /\ p[2] = FileStep("replace", f, doc, <<>>)
  BY <1>1, SaveSteps
<1>3. w.todo = p /\ w.then = then /\ w.entry = entry
  BY <1>1
<1>4. /\ p[1].do = "archive" /\ p[1].f = f /\ p[1].otherwise = <<>>
      /\ p[2].do = "replace" /\ p[2].f = f /\ p[2].otherwise = <<>> /\ p[2].doc = doc
  BY <1>2 DEF FileStep
<1>5. \A i \in 1..Len(p) : i = 1 \/ i = 2
  BY <1>2
<1>6. Provided(p, then)
  BY <1>3, <1>4, <1>5 DEF Provided
<1>7. MakesOne(p, then)
  BY <1>3, <1>4, <1>5 DEF MakesOne
<1>8. Unneeded(p, then)
  BY <1>3, <1>4, <1>5 DEF Unneeded
<1>9. Repairable(p, then)
  BY <1>3, <1>4, <1>5 DEF Repairable
<1>10. Memorable(w)
  BY <1>3 DEF Memorable
<1> QED
  BY <1>3, <1>6, <1>7, <1>8, <1>9, <1>10 DEF Settled

(* The entry of an operation that remembers nothing.                       *)
LEMMA FormerOfNothing ==
    Former(NoDocument).doc.refs = {} /\ ~Former(NoDocument).exists
BY DEF Former, NoDocument

(* A plan that deletes a function nobody calls.                            *)
LEMMA DeleteIsSettled ==
    ASSUME NEW f \in Functions, Uncalled(f),
           NEW w, w = [todo |-> DeletePlan(f, <<>>), then |-> "deleted", f |-> f,
                       entry |-> Former(NoDocument)]
    PROVE  Settled(w)
<1>1. PICK p : p = DeletePlan(f, <<>>)
  OBVIOUS
<1>2. Len(p) = 2 /\ p[1] = FileStep("archive", f, NoDocument, <<>>)
      /\ p[2] = FileStep("unlink", f, NoDocument, <<>>)
  BY <1>1, DeleteSteps
<1>3. w.todo = p /\ w.then = "deleted" /\ w.entry = Former(NoDocument)
  BY <1>1
<1>4. /\ p[1].do = "archive" /\ p[1].f = f /\ p[1].otherwise = <<>>
      /\ p[2].do = "unlink" /\ p[2].f = f /\ p[2].otherwise = <<>>
  BY <1>2 DEF FileStep
<1>5. \A i \in 1..Len(p) : i = 1 \/ i = 2
  BY <1>2
<1>6. Provided(p, "deleted")
  BY <1>3, <1>4, <1>5 DEF Provided
<1>7. MakesOne(p, "deleted")
  BY <1>3, <1>4, <1>5 DEF MakesOne
<1>8. Unneeded(p, "deleted")
  BY <1>3, <1>4, <1>5 DEF Unneeded
<1>9. Repairable(p, "deleted")
  BY <1>3, <1>4, <1>5 DEF Repairable
<1>10. Memorable(w)
  BY <1>3, FormerOfNothing DEF Memorable
<1> QED
  BY <1>3, <1>6, <1>7, <1>8, <1>9, <1>10 DEF Settled

(* A plan that creates a function without references.                      *)
LEMMA CreateIsSettled ==
    ASSUME NEW f \in Functions, NEW doc, doc.refs = {},
           NEW w, w = [todo |-> CreatePlan(f, doc), then |-> "nothing", f |-> f,
                       entry |-> Former(NoDocument)]
    PROVE  Settled(w)
<1>1. PICK p : p = CreatePlan(f, doc)
  OBVIOUS
<1>2. Len(p) = 1 /\ p[1] = FileStep("link", f, doc, <<>>)
  BY <1>1 DEF CreatePlan
<1>3. w.todo = p /\ w.then = "nothing" /\ w.entry = Former(NoDocument)
  BY <1>1
<1>4. p[1].do = "link" /\ p[1].f = f /\ p[1].otherwise = <<>> /\ p[1].doc = doc
  BY <1>2 DEF FileStep
<1>5. \A i \in 1..Len(p) : i = 1
  BY <1>2
<1>6. Provided(p, "nothing")
  BY <1>3, <1>4, <1>5 DEF Provided
<1>7. MakesOne(p, "nothing")
  BY <1>3, <1>4, <1>5 DEF MakesOne, Returns
<1>8. Unneeded(p, "nothing")
  BY <1>3, <1>4, <1>5 DEF Unneeded
<1>9. Repairable(p, "nothing")
  BY <1>3, <1>4, <1>5 DEF Repairable
<1>10. Memorable(w)
  BY <1>3, FormerOfNothing DEF Memorable
<1> QED
  BY <1>3, <1>6, <1>7, <1>8, <1>9, <1>10 DEF Settled

(* A plan for an extraction: the companion is made, then called.           *)
LEMMA AppearIsSettled ==
    ASSUME NEW f \in Functions, NEW doc \in Docs, NEW e \in Functions, NEW extracted \in Docs,
           NEW entry,
           extracted.refs \subseteq Known, doc.refs \subseteq Known \cup {e}, Uncalled(e),
           ~removed => entry.doc.refs \subseteq Known, ~entry.exists,
           NEW w, w = [todo |-> CompanionPlan(f, doc, e, extracted, TRUE), then |-> "edited", f |-> f,
                       entry |-> entry]
    PROVE  Settled(w)
<1>1. PICK p : p = CompanionPlan(f, doc, e, extracted, TRUE)
  OBVIOUS
<1>2. PICK o : o = DeletePlan(e, <<>>)
  OBVIOUS
<1>3. Appears(p, f, doc, e, extracted, o)
  BY <1>1, <1>2, AppearSteps, Zenon
<1>4. Len(o) = 2 /\ o[1] = FileStep("archive", e, NoDocument, <<>>)
      /\ o[2] = FileStep("unlink", e, NoDocument, <<>>)
  BY <1>2, DeleteSteps
<1>5. w.todo = p /\ w.then = "edited" /\ w.entry = entry
  BY <1>1
<1>6. /\ p[1].do = "link" /\ p[1].f = e /\ p[1].otherwise = <<>> /\ p[1].doc = extracted
      /\ p[2].do = "archive" /\ p[2].f = f /\ p[2].otherwise = o
      /\ p[3].do = "replace" /\ p[3].f = f /\ p[3].otherwise = o /\ p[3].doc = doc
      /\ o[1].do = "archive" /\ o[2].do = "unlink" /\ o[2].f = e
  BY <1>3, <1>4 DEF FileStep, Appears
<1>7. /\ \A i \in 1..Len(p) : i = 1 \/ i = 2 \/ i = 3
      /\ \A k \in 1..Len(o) : k = 1 \/ k = 2
      /\ 1 \in 1..(3 - 1)
  BY <1>3, <1>4 DEF Appears
<1>8. Provided(p, "edited")
  <2> SUFFICES ASSUME NEW i \in 1..Len(p), p[i].do \in {"replace", "link"}, NEW r \in p[i].doc.refs
               PROVE  r \in Known \/ \E j \in 1..(i - 1) : p[j].do = "link" /\ p[j].f = r
    BY DEF Provided
  <2>1. CASE i = 1
    BY <2>1, <1>6
  <2>2. CASE i = 3
    <3>1. r \in Known \/ r = e
      BY <2>2, <1>6
    <3>2. 1 \in 1..(i - 1)
      BY <2>2
    <3> QED
      BY <3>1, <3>2, <1>6
  <2> QED
    BY <2>1, <2>2, <1>6, <1>7
<1>9. MakesOne(p, "edited")
  <2> SUFFICES ASSUME NEW i \in 1..Len(p), NEW j \in 1..Len(p), p[i].do = "link"
               PROVE  /\ p[j].do # "unlink"
                      /\ \A k \in 1..Len(p[j].otherwise) :
                            p[j].otherwise[k].do = "unlink" => p[j].otherwise[k].f = p[i].f
    BY DEF MakesOne, Returns
  <2>1. i = 1
    BY <1>6, <1>7
  <2>2. p[j].otherwise \in {<<>>, o} /\ p[j].do # "unlink"
    BY <1>6, <1>7
  <2> QED
    BY <2>1, <2>2, <1>6, <1>7
<1>10. Unneeded(p, "edited")
  BY <1>5, <1>6, <1>7 DEF Unneeded
<1>11. Repairable(p, "edited")
  <2> SUFFICES ASSUME NEW i \in 1..Len(p), NEW k \in 1..Len(p[i].otherwise)
               PROVE  /\ p[i].otherwise[k].do = "unlink" => Uncalled(p[i].otherwise[k].f)
                      /\ p[i].otherwise[k].do # "replace"
    BY DEF Repairable
  <2>1. p[i].otherwise \in {<<>>, o}
    BY <1>6, <1>7
  <2> QED
    BY <2>1, <1>6, <1>7
<1>12. Memorable(w)
  BY <1>5 DEF Memorable
<1> QED
  BY <1>5, <1>8, <1>9, <1>10, <1>11, <1>12 DEF Settled

(* A plan that takes an extraction back: the calls go before the companion.*)
LEMMA DisappearIsSettled ==
    ASSUME NEW f \in Functions, NEW doc \in Docs, NEW e \in Functions, NEW extracted,
           documents[f] \in Docs, NEW then \in {"undone", "redone"}, NEW entry,
           ~removed => doc.refs \subseteq Known,
           ~removed => documents[f].refs \subseteq Known,
           ~removed => entry.doc.refs \subseteq Known,
           NEW w, w = [todo |-> CompanionPlan(f, doc, e, extracted, FALSE), then |-> then, f |-> f,
                       entry |-> entry]
    PROVE  Settled(w)
<1>1. PICK p : p = CompanionPlan(f, doc, e, extracted, FALSE)
  OBVIOUS
<1>2. PICK o : o = SavePlan(f, documents[f], <<>>)
  OBVIOUS
<1>3. Disappears(p, f, doc, e, o)
  BY <1>1, <1>2, DisappearSteps, Zenon
<1>4. Len(o) = 2 /\ o[1] = FileStep("archive", f, NoDocument, <<>>)
      /\ o[2] = FileStep("replace", f, documents[f], <<>>)
  BY <1>2, SaveSteps
<1>5. w.todo = p /\ w.then = then /\ w.entry = entry /\ then \in Returns
  BY <1>1 DEF Returns
<1>6. /\ p[1].do = "archive" /\ p[1].f = f /\ p[1].otherwise = <<>>
      /\ p[2].do = "replace" /\ p[2].f = f /\ p[2].otherwise = <<>> /\ p[2].doc = doc
      /\ p[3].do = "archive" /\ p[3].f = e /\ p[3].otherwise = o
      /\ p[4].do = "unlink" /\ p[4].f = e /\ p[4].otherwise = o
      /\ o[1].do = "archive" /\ o[2].do = "replace" /\ o[2].doc = documents[f]
  BY <1>3, <1>4 DEF FileStep, Disappears
<1>7. /\ \A i \in 1..Len(p) : i = 1 \/ i = 2 \/ i = 3 \/ i = 4
      /\ \A k \in 1..Len(o) : k = 1 \/ k = 2
      /\ 2 \in 1..(3 - 1) /\ 2 \in 1..(4 - 1) /\ 2 \in 1..((Len(p) + 1) - 1)
      /\ 4 \in 1..Len(p)
  BY <1>3, <1>4 DEF Disappears
<1>8. Replaces(p, 3) /\ Replaces(p, 4) /\ Replaces(p, Len(p) + 1)
  BY <1>6, <1>7 DEF Replaces
<1>9. Provided(p, then)
  BY <1>5, <1>6, <1>7 DEF Provided
<1>10. MakesOne(p, then)
  BY <1>5, <1>6, <1>7 DEF MakesOne
<1>11. Unneeded(p, then)
  BY <1>5, <1>6, <1>7, <1>8 DEF Unneeded
<1>12. Repairable(p, then)
  <2> SUFFICES ASSUME NEW i \in 1..Len(p), NEW k \in 1..Len(p[i].otherwise)
               PROVE  /\ p[i].otherwise[k].do # "unlink"
                      /\ p[i].otherwise[k].do = "replace" =>
                            Replaces(p, i) /\ (~removed => p[i].otherwise[k].doc.refs \subseteq Known)
    BY <1>5 DEF Repairable
  <2>1. p[i].otherwise = o /\ (i = 3 \/ i = 4)
    BY <1>6, <1>7
  <2> QED
    BY <2>1, <1>6, <1>7, <1>8
<1>13. Memorable(w)
  BY <1>5, <1>6, <1>7, <1>8 DEF Memorable
<1> QED
  BY <1>5, <1>9, <1>10, <1>11, <1>12, <1>13 DEF Settled

(* A plan that deletes a variable nobody uses.                             *)
LEMMA VariableIsSettled ==
    ASSUME NEW v \in Variables, NobodyUses(v),
           NEW w, w = [NoWork EXCEPT !.todo = <<FileStep("variable", v, NoDocument, <<>>)>>,
                                     !.then = "variable"]
    PROVE  Settled(w)
<1>1. PICK p : p = <<FileStep("variable", v, NoDocument, <<>>)>>
  OBVIOUS
<1>2. Len(p) = 1 /\ p[1] = FileStep("variable", v, NoDocument, <<>>)
  BY <1>1
<1>3. w.todo = p /\ w.then = "variable" /\ w.entry = Former(NoDocument)
  BY <1>1 DEF NoWork
<1>4. p[1].do = "variable" /\ p[1].f = v /\ p[1].otherwise = <<>>
  BY <1>2 DEF FileStep
<1>5. \A i \in 1..Len(p) : i = 1
  BY <1>2
<1>6. Provided(p, "variable")
  BY <1>3, <1>4, <1>5 DEF Provided
<1>7. MakesOne(p, "variable")
  BY <1>3, <1>4, <1>5 DEF MakesOne
<1>8. Unneeded(p, "variable")
  BY <1>3, <1>4, <1>5 DEF Unneeded
<1>9. Repairable(p, "variable")
  BY <1>3, <1>4, <1>5 DEF Repairable
<1>10. Memorable(w)
  BY <1>3, FormerOfNothing DEF Memorable
<1> QED
  BY <1>3, <1>6, <1>7, <1>8, <1>9, <1>10 DEF Settled

(* A thread with nothing to do.                                            *)
LEMMA IdleIsSettled == Settled(NoWork)
<1>1. NoWork.todo = <<>> /\ NoWork.entry = Former(NoDocument)
  BY DEF NoWork
<1>2. \A i \in 1..Len(<<>>) : FALSE
  OBVIOUS
<1> QED
  BY <1>1, <1>2, FormerOfNothing DEF Settled, Provided, MakesOne, Unneeded, Repairable, Memorable

-----------------------------------------------------------------------------
(* Work is as settled as before while documents and variables are the same.*)
LEMMA SettledStays ==
    ASSUME NEW x, Settled(x), UNCHANGED <<documents, variables, wentBack, removed>>
    PROVE  Settled(x)'
<1>1. Provided(x.todo, x.then)'
  BY DEF Settled, Provided, Known, Existing
<1>2. MakesOne(x.todo, x.then)'
  BY DEF Settled, MakesOne
<1>3. Unneeded(x.todo, x.then)'
  BY DEF Settled, Unneeded, Uncalled, NobodyUses, Existing
<1>4. Repairable(x.todo, x.then)'
  BY DEF Settled, Repairable, Uncalled, Known, Existing
<1>5. Memorable(x)'
  BY DEF Settled, Memorable, Known, Existing
<1> QED
  BY <1>1, <1>2, <1>3, <1>4, <1>5 DEF Settled

(* Every step but a file operation leaves documents and variables alone.   *)
LEMMA BeginResolves ==
    ASSUME StoreBase, StoreResolves, NEW t \in Requests, NEW w, Promised => Settled(w),
           work' = [work EXCEPT ![t] = w],
           UNCHANGED <<documents, variables, archive, undos, redos, wentBack, removed>>
    PROVE  StoreResolves'
<1> SUFFICES ASSUME Promised'
             PROVE  (/\ DocumentsKnown /\ HistoryKnown /\ NothingTakenBack
                     /\ \A u \in Requests : \A x \in {work[u]} : Settled(x))'
  BY DEF StoreResolves
<1>1. Promised
  BY DEF Promised
<1>2. (DocumentsKnown /\ HistoryKnown /\ NothingTakenBack)'
  BY <1>1 DEF StoreResolves, DocumentsKnown, HistoryKnown, NothingTakenBack, Known, Existing
<1>3. ASSUME NEW u \in Requests, NEW x \in {work'[u]} PROVE Settled(x)'
  <2>1. Settled(x)
    <3>1. CASE u = t
      <4>1. x = w
        BY <3>1 DEF StoreBase, StoreTypes
      <4> QED
        BY <1>1, <4>1
    <3>2. CASE u # t
      <4>1. x \in {work[u]}
        BY <3>2 DEF StoreBase, StoreTypes
      <4> QED
        BY <1>1, <4>1, Zenon DEF StoreResolves
    <3> QED
      BY <3>1, <3>2
  <2> QED
    BY <2>1, SettledStays
<1> QED
  BY <1>2, <1>3

(* A file operation fails: the repair removes what the plan made, or brings back*)
(* the callers of what it was to remove.                                   *)
LEMMA FailResolves ==
    ASSUME StoreBase, StoreResolves, NEW t \in Requests, file_operation_fails(t)
    PROVE  StoreResolves'
<1>1. PICK w \in {work[t]} : TRUE
  OBVIOUS
<1>2. PICK p : p = w.todo
  OBVIOUS
<1>3. PICK s : s = Head(p)
  OBVIOUS
<1>4. PICK o : o = s.otherwise
  OBVIOUS
<1>5. PICK v : v = [NoWork EXCEPT !.todo = o, !.then = "failed"]
  OBVIOUS
<1>6. p # <<>> /\ UNCHANGED <<documents, variables, archive, undos, redos, wentBack, removed>>
  BY <1>2, Zenon DEF file_operation_fails
<1>7. work' = [work EXCEPT ![t] = v]
  BY <1>2, <1>3, <1>4, <1>5, Zenon DEF file_operation_fails
<1>8. /\ s = p[1] /\ s \in Steps /\ s.otherwise \in Seq(RepairSteps)
      /\ 1 \in 1..Len(p)
  BY <1>2, <1>3, <1>6, StepIs
<1>9. v.todo = o /\ v.then = "failed" /\ v.entry = Former(NoDocument)
  BY <1>5 DEF NoWork
<1>10. \A k \in 1..Len(o) : o[k].do \in {"archive", "replace", "unlink"} /\ o[k].otherwise = <<>>
  BY <1>4, <1>8, RepairFields
<1>11. ASSUME Promised PROVE Settled(v)
  <2>1. Settled(w)
    BY <1>11 DEF StoreResolves
  <2>2. Repairable(p, w.then)
    BY <1>2, <2>1 DEF Settled
  <2>3. ~Replaces(p, 1)
    BY DEF Replaces
  <2>4. ASSUME NEW k \in 1..Len(o)
        PROVE  /\ o[k].do = "unlink" /\ ~wentBack => Uncalled(o[k].f)
               /\ o[k].do = "replace" => wentBack /\ (~removed => o[k].doc.refs \subseteq Known)
    BY <1>4, <1>8, <2>2, <2>3 DEF Repairable
  <2>5. Provided(o, "failed")
    BY <1>10, <1>11, <2>4 DEF Provided, Promised
  <2>6. MakesOne(o, "failed")
    BY <1>10 DEF MakesOne
  <2>7. Unneeded(o, "failed")
    BY <1>10, <2>4 DEF Unneeded
  <2>8. Repairable(o, "failed")
    BY <1>10 DEF Repairable
  <2>9. Memorable(v)
    BY <1>9, FormerOfNothing DEF Memorable
  <2> QED
    BY <1>9, <2>5, <2>6, <2>7, <2>8, <2>9 DEF Settled
<1> QED
  BY <1>6, <1>7, <1>11, BeginResolves

(* A request ends: its entry goes to a stack.                              *)
LEMMA EndResolves ==
    ASSUME StoreBase, StoreResolves, NEW t \in Requests, request_ends(t)
    PROVE  StoreResolves'
<1>1. PICK w \in {work[t]} : TRUE
  OBVIOUS
<1>2. /\ w.todo = <<>>
      /\ undos' = [undos EXCEPT ![w.f] = Undos(w)]
      /\ redos' = [redos EXCEPT ![w.f] = Redos(w)]
      /\ work' = [work EXCEPT ![t] = NoWork]
      /\ UNCHANGED <<documents, variables, archive, wentBack, removed>>
  BY Zenon DEF request_ends
<1> SUFFICES ASSUME Promised'
             PROVE  (/\ DocumentsKnown /\ HistoryKnown /\ NothingTakenBack
                     /\ \A u \in Requests : \A x \in {work[u]} : Settled(x))'
  BY DEF StoreResolves
<1>3. Promised
  BY <1>2 DEF Promised
<1>4. w.f \in Functions
  BY DEF StoreBase, StoreTypes, Works
<1>5. /\ \A n \in 1..Len(Undos(w)) :
            \/ Undos(w)[n] = w.entry
            \/ \E m \in 1..Len(undos[w.f]) : Undos(w)[n] = undos[w.f][m]
      /\ \A n \in 1..Len(Redos(w)) :
            \/ Redos(w)[n] = w.entry
            \/ \E m \in 1..Len(redos[w.f]) : Redos(w)[n] = redos[w.f][m]
  BY StacksGrow
<1>6. ~w.entry.exists /\ (~removed => w.entry.doc.refs \subseteq Known)
  <2>1. Memorable(w)
    BY <1>3 DEF StoreResolves, Settled
  <2>2. ~Replaces(<<>>, Len(<<>>) + 1) /\ \A j \in 1..Len(<<>>) : FALSE
    BY DEF Replaces
  <2> QED
    BY <1>2, <1>3, <2>1, <2>2 DEF Memorable, Promised
<1>7. DocumentsKnown'
  BY <1>2, <1>3 DEF StoreResolves, DocumentsKnown, Known, Existing
<1>8. Known' = Known
  BY <1>2 DEF Known, Existing
<1>9. ASSUME NEW f \in Functions
      PROVE  /\ \A n \in 1..Len(undos'[f]) :
                    ~undos'[f][n].exists /\ (~removed => undos'[f][n].doc.refs \subseteq Known)
             /\ \A n \in 1..Len(redos'[f]) :
                    ~redos'[f][n].exists /\ (~removed => redos'[f][n].doc.refs \subseteq Known)
  <2>1. /\ \A n \in 1..Len(undos[f]) :
              ~undos[f][n].exists /\ (~removed => undos[f][n].doc.refs \subseteq Known)
        /\ \A n \in 1..Len(redos[f]) :
              ~redos[f][n].exists /\ (~removed => redos[f][n].doc.refs \subseteq Known)
    BY <1>3, Zenon DEF StoreResolves, HistoryKnown, NothingTakenBack
  <2>2. CASE f = w.f
    <3>1. undos'[f] = Undos(w) /\ redos'[f] = Redos(w)
      BY <1>2, <2>2 DEF StoreBase, StoreTypes
    <3>2. /\ \A m \in 1..Len(undos[w.f]) :
                ~undos[w.f][m].exists /\ (~removed => undos[w.f][m].doc.refs \subseteq Known)
          /\ \A m \in 1..Len(redos[w.f]) :
                ~redos[w.f][m].exists /\ (~removed => redos[w.f][m].doc.refs \subseteq Known)
      BY <2>1, <2>2
    <3>3. /\ \A n \in 1..Len(Undos(w)) :
                ~Undos(w)[n].exists /\ (~removed => Undos(w)[n].doc.refs \subseteq Known)
          /\ \A n \in 1..Len(Redos(w)) :
                ~Redos(w)[n].exists /\ (~removed => Redos(w)[n].doc.refs \subseteq Known)
      BY <1>5, <1>6, <3>2
    <3> QED
      BY <3>1, <3>3, Zenon
  <2>3. CASE f # w.f
    <3>1. undos'[f] = undos[f] /\ redos'[f] = redos[f]
      BY <1>2, <2>3 DEF StoreBase, StoreTypes
    <3> QED
      BY <2>1, <3>1, Zenon
  <2> QED
    BY <2>2, <2>3
<1>10. NothingTakenBack'
  BY <1>9, Zenon DEF NothingTakenBack
<1>11. HistoryKnown'
  <2>1. ~removed => variables = Variables
                    /\ \A f \in Functions : \A n \in 1..Len(archive[f]) : archive[f][n].refs \subseteq Known
    BY <1>3, Zenon DEF StoreResolves, HistoryKnown
  <2> QED
    BY <1>2, <1>8, <1>9, <2>1 DEF HistoryKnown
<1>12. ASSUME NEW u \in Requests, NEW x \in {work'[u]} PROVE Settled(x)'
  <2>1. Settled(x)
    <3>1. CASE u = t
      <4>1. x = NoWork
        BY <3>1, <1>2 DEF StoreBase, StoreTypes
      <4> QED
        BY <4>1, IdleIsSettled
    <3>2. CASE u # t
      <4>1. x \in {work[u]}
        BY <3>2, <1>2 DEF StoreBase, StoreTypes
      <4> QED
        BY <1>3, <4>1, Zenon DEF StoreResolves
    <3> QED
      BY <3>1, <3>2
  <2> QED
    BY <1>2, <2>1, SettledStays
<1> QED
  BY <1>7, <1>10, <1>11, <1>12

(* The process ends, between any two steps of an operation.                *)
LEMMA RestartResolves ==
    ASSUME StoreBase, StoreResolves, process_restarts
    PROVE  StoreResolves'
<1> USE DEF process_restarts
<1> SUFFICES ASSUME Promised'
             PROVE  (/\ DocumentsKnown /\ HistoryKnown /\ NothingTakenBack
                     /\ \A u \in Requests : \A x \in {work[u]} : Settled(x))'
  BY DEF StoreResolves
<1>1. Promised
  BY DEF Promised
<1>2. (DocumentsKnown /\ HistoryKnown /\ NothingTakenBack)'
  BY <1>1 DEF StoreResolves, DocumentsKnown, HistoryKnown, NothingTakenBack, Known, Existing
<1>3. ASSUME NEW u \in Requests, NEW x \in {work'[u]} PROVE Settled(x)'
  <2>1. x = NoWork
    OBVIOUS
  <2> QED
    BY <2>1, IdleIsSettled, SettledStays
<1> QED
  BY <1>2, <1>3

-----------------------------------------------------------------------------
\* What a file operation does, as far as references are concerned.
Done(s, then) ==
    /\ wentBack => wentBack'
    /\ removed => removed'
    /\ s.do \in {"unlink", "variable"} => removed'
    /\ s.do \notin {"unlink", "variable"} => Known \subseteq Known' /\ variables' = variables
    /\ s.do = "replace" /\ then \in Returns => wentBack'
    /\ s.do \in {"archive", "variable"} => documents' = documents
    /\ s.do = "link" =>
          s.f \in Known' /\ \A g \in Existing' \ {s.f} : g \in Existing /\ documents'[g] = documents[g]
    /\ s.do = "unlink" =>
          \A g \in Existing' : g # s.f /\ g \in Existing /\ documents'[g] = documents[g]

(* What a file operation does to references.                               *)
LEMMA FileIsDone ==
    ASSUME StoreBase, NEW t \in Requests, file_operation(t), NEW w \in {work[t]},
           NEW s, s = Head(w.todo)
    PROVE  Done(s, w.then)
<1>1. PICK p : p = w.todo
  OBVIOUS
<1>2. /\ p # <<>>
      /\ s.do = "link" => ~documents[s.f].there
      /\ documents' = CASE s.do \in {"link", "replace"} -> [documents EXCEPT ![s.f] = s.doc]
                         [] s.do = "unlink" -> [documents EXCEPT ![s.f] = NoDocument]
                         [] OTHER -> documents
      /\ variables' = IF s.do = "variable" THEN variables \ {s.f} ELSE variables
      /\ removed' = (removed \/ s.do \in {"unlink", "variable"})
      /\ wentBack' = (wentBack \/ (s.do = "replace" /\ w.then \in Returns))
  BY <1>1, Zenon DEF file_operation, Returns
<1>3. /\ Sane(t, w) /\ s = p[1] /\ 1 \in 1..Len(p)
      /\ s.do # "variable" => s.f \in Functions
      /\ s.do \in {"archive", "replace", "unlink", "link", "variable"}
  BY <1>1, <1>2, StepIs
<1>4. documents \in [Functions -> Docs]
  BY DEF StoreBase, StoreTypes
<1>5. s.do \in {"replace", "link"} => s.doc.there
  BY <1>1, <1>3 DEF Sane, IsWork, IsPlan
<1>6. CASE s.do = "archive"
  BY <1>2, <1>6 DEF Done, Known, Existing
<1>7. CASE s.do = "replace"
  <2>1. documents' = [documents EXCEPT ![s.f] = s.doc] /\ variables' = variables
    BY <1>2, <1>7
  <2>2. Existing \subseteq Existing'
    BY <1>3, <1>4, <1>5, <1>7, <2>1 DEF Existing
  <2> QED
    BY <1>2, <1>7, <2>1, <2>2 DEF Done, Known
<1>8. CASE s.do = "link"
  <2>1. documents' = [documents EXCEPT ![s.f] = s.doc] /\ variables' = variables
    BY <1>2, <1>8
  <2>2. Existing \subseteq Existing' /\ s.f \in Existing'
    BY <1>3, <1>4, <1>5, <1>8, <2>1 DEF Existing
  <2>3. \A g \in Existing' \ {s.f} : g \in Existing /\ documents'[g] = documents[g]
    BY <1>3, <1>4, <1>8, <2>1 DEF Existing
  <2> QED
    BY <1>2, <1>8, <2>1, <2>2, <2>3 DEF Done, Known
<1>9. CASE s.do = "unlink"
  <2>1. documents' = [documents EXCEPT ![s.f] = NoDocument]
    BY <1>2, <1>9
  <2>2. \A g \in Existing' : g # s.f /\ g \in Existing /\ documents'[g] = documents[g]
    BY <1>3, <1>4, <1>9, <2>1, NothingIsFit DEF Existing
  <2> QED
    BY <1>2, <1>9, <2>2 DEF Done
<1>10. CASE s.do = "variable"
  BY <1>2, <1>10 DEF Done
<1> QED
  BY <1>3, <1>6, <1>7, <1>8, <1>9, <1>10

(* The documents after a file operation.                                   *)
LEMMA DocumentsResolve ==
    ASSUME StoreBase, StoreResolves, Promised, Promised', NEW t \in Requests, file_operation(t)
    PROVE  DocumentsKnown'
<1>1. PICK w \in {work[t]} : TRUE
  OBVIOUS
<1>2. PICK p : p = w.todo
  OBVIOUS
<1>3. PICK s : s = Head(p)
  OBVIOUS
<1>4. /\ p # <<>>
      /\ documents' = CASE s.do \in {"link", "replace"} -> [documents EXCEPT ![s.f] = s.doc]
                         [] s.do = "unlink" -> [documents EXCEPT ![s.f] = NoDocument]
                         [] OTHER -> documents
      /\ variables' = IF s.do = "variable" THEN variables \ {s.f} ELSE variables
  BY <1>2, <1>3, Zenon DEF file_operation
<1>5. /\ Sane(t, w) /\ s = p[1] /\ 1 \in 1..Len(p)
      /\ s.do # "variable" => s.f \in Functions
      /\ s.do \in {"archive", "replace", "unlink", "link", "variable"}
  BY <1>2, <1>3, <1>4, StepIs
<1>6. Done(s, w.then)
  BY <1>2, <1>3, FileIsDone
<1>7. DocumentsKnown /\ Settled(w)
  BY DEF StoreResolves
<1>8. documents \in [Functions -> Docs]
  BY DEF StoreBase, StoreTypes
<1>9. \A j \in 1..(1 - 1) : FALSE
  OBVIOUS
<1>10. s.do \in {"link", "replace"} => s.doc.refs \subseteq Known
  <2>1. Provided(p, w.then) /\ MakesOne(p, w.then)
    BY <1>2, <1>7 DEF Settled
  <2>2. s.do = "link" => w.then \notin Returns
    BY <1>5, <2>1 DEF MakesOne
  <2>3. s.do = "replace" /\ w.then \in Returns => ~removed
    BY <1>6 DEF Done, Promised
  <2> QED
    BY <1>5, <1>9, <2>1, <2>2, <2>3 DEF Provided
<1>11. CASE s.do = "archive"
  BY <1>4, <1>7, <1>11 DEF DocumentsKnown, Known, Existing
<1>12. CASE s.do \in {"link", "replace"}
  <2> SUFFICES ASSUME NEW g \in Existing' PROVE documents'[g].refs \subseteq Known'
    BY DEF DocumentsKnown
  <2>1. Known \subseteq Known'
    BY <1>6, <1>12 DEF Done
  <2>2. g \in Functions /\ documents'[g].there
    BY DEF Existing
  <2>3. CASE g = s.f
    <3>1. documents'[g] = s.doc
      BY <1>4, <1>8, <1>12, <2>2, <2>3
    <3> QED
      BY <1>10, <1>12, <2>1, <3>1
  <2>4. CASE g # s.f
    <3>1. documents'[g] = documents[g]
      BY <1>4, <1>8, <1>12, <2>2, <2>4
    <3>2. g \in Existing
      BY <2>2, <3>1 DEF Existing
    <3> QED
      BY <1>7, <2>1, <3>1, <3>2 DEF DocumentsKnown
  <2> QED
    BY <2>3, <2>4
<1>13. CASE s.do \in {"unlink", "variable"}
  <2>1. ~wentBack
    BY <1>6, <1>13 DEF Done, Promised
  <2>2. Unneeded(p, w.then) /\ ~Replaces(p, 1)
    BY <1>2, <1>7, <1>9 DEF Settled, Replaces
  <2>3. CASE s.do = "unlink"
    <3>1. Uncalled(s.f)
      BY <1>5, <2>1, <2>2, <2>3 DEF Unneeded
    <3> SUFFICES ASSUME NEW g \in Existing', NEW r \in documents'[g].refs PROVE r \in Known'
      BY DEF DocumentsKnown
    <3>2. g # s.f /\ g \in Existing /\ documents'[g] = documents[g]
      BY <1>6, <2>3 DEF Done
    <3>3. r \in Known /\ r # s.f
      BY <1>7, <3>1, <3>2 DEF DocumentsKnown, Uncalled
    <3>4. r \in Existing => r \in Existing'
      BY <1>4, <1>8, <2>3, <3>3 DEF Existing
    <3> QED
      BY <1>4, <2>3, <3>3, <3>4 DEF Known
  <2>4. CASE s.do = "variable"
    <3>1. NobodyUses(s.f)
      BY <1>5, <2>1, <2>2, <2>4 DEF Unneeded
    <3>2. documents' = documents /\ Existing' = Existing /\ variables' = variables \ {s.f}
      BY <1>4, <2>4 DEF Existing
    <3> SUFFICES ASSUME NEW g \in Existing, NEW r \in documents[g].refs PROVE r \in Known'
      BY <3>2 DEF DocumentsKnown
    <3>3. r \in Known /\ r # s.f
      BY <1>7, <3>1 DEF DocumentsKnown, NobodyUses
    <3> QED
      BY <3>2, <3>3 DEF Known
  <2> QED
    BY <1>13, <2>3, <2>4
<1> QED
  BY <1>5, <1>11, <1>12, <1>13

(* The versions that were kept, after a file operation.                    *)
LEMMA HistoryResolves ==
    ASSUME StoreBase, StoreResolves, Promised, NEW t \in Requests, file_operation(t)
    PROVE  HistoryKnown'
<1>1. PICK w \in {work[t]} : TRUE
  OBVIOUS
<1>2. PICK p : p = w.todo
  OBVIOUS
<1>3. PICK s : s = Head(p)
  OBVIOUS
<1>4. /\ p # <<>>
      /\ archive' = IF s.do = "archive"
                    THEN [archive EXCEPT ![s.f] = Trimmed(Append(@, documents[s.f]))] ELSE archive
      /\ UNCHANGED <<undos, redos>>
  BY <1>2, <1>3, Zenon DEF file_operation
<1>5. /\ Sane(t, w) /\ s = p[1] /\ 1 \in 1..Len(p)
      /\ s.do # "variable" => s.f \in Functions
      /\ s.do \in {"archive", "replace", "unlink", "link", "variable"}
  BY <1>2, <1>3, <1>4, StepIs
<1>6. Done(s, w.then)
  BY <1>2, <1>3, FileIsDone
<1>7. DocumentsKnown /\ HistoryKnown
  BY DEF StoreResolves
<1>8. documents \in [Functions -> Docs] /\ archive \in [Functions -> Seq(Docs)]
  BY DEF StoreBase, StoreTypes
<1> SUFFICES ASSUME ~removed'
             PROVE  (/\ variables = Variables
                     /\ \A f \in Functions :
                        /\ \A n \in 1..Len(archive[f]) : archive[f][n].refs \subseteq Known
                        /\ \A n \in 1..Len(undos[f]) : undos[f][n].doc.refs \subseteq Known
                        /\ \A n \in 1..Len(redos[f]) : redos[f][n].doc.refs \subseteq Known)'
  BY DEF HistoryKnown
<1>9. ~removed /\ Known \subseteq Known' /\ variables' = variables
  BY <1>6 DEF Done
<1>10. /\ variables = Variables
       /\ \A f \in Functions :
            /\ \A n \in 1..Len(archive[f]) : archive[f][n].refs \subseteq Known
            /\ \A n \in 1..Len(undos[f]) : undos[f][n].doc.refs \subseteq Known
            /\ \A n \in 1..Len(redos[f]) : redos[f][n].doc.refs \subseteq Known
  BY <1>7, <1>9, Zenon DEF HistoryKnown
<1>11. ASSUME NEW f \in Functions, NEW n \in 1..Len(archive'[f])
       PROVE  archive'[f][n].refs \subseteq Known
  <2>1. CASE s.do = "archive" /\ f = s.f
    <3>1. There(p, 1, f)
      BY <1>2, <1>5, <2>1 DEF Sane, IsReady
    <3>2. documents[f].there
      BY <3>1 DEF There
    <3>3. documents[f].refs \subseteq Known
      BY <1>7, <3>2 DEF DocumentsKnown, Existing
    <3>4. archive[f] \in Seq(Docs) /\ documents[f] \in Docs
      BY <1>8
    <3>5. IsLonger(Trimmed(Append(archive[f], documents[f])), archive[f], documents[f])
      BY <3>4, HistoryIsTrimmed, Zenon
    <3>6. archive'[f] = Trimmed(Append(archive[f], documents[f]))
      BY <1>4, <1>8, <2>1
    <3>7. archive'[f][n] = documents[f] \/ \E m \in 1..Len(archive[f]) : archive'[f][n] = archive[f][m]
      BY <3>5, <3>6, Zenon DEF IsLonger
    <3> QED
      BY <1>10, <3>3, <3>7
  <2>2. CASE ~(s.do = "archive" /\ f = s.f)
    <3>1. archive'[f] = archive[f]
      BY <1>4, <1>8, <2>2
    <3> QED
      BY <1>10, <3>1
  <2> QED
    BY <2>1, <2>2
<1> QED
  BY <1>4, <1>9, <1>10, <1>11

(* What a request has left to do, after its file operation.                *)
LEMMA RestResolves ==
    ASSUME StoreBase, StoreResolves, Promised, Promised', NEW t \in Requests, file_operation(t),
           NEW w \in {work[t]}, NEW v, v = [w EXCEPT !.todo = Tail(@)]
    PROVE  Settled(v)'
<1>1. PICK p : p = w.todo
  OBVIOUS
<1>2. PICK s : s = Head(p)
  OBVIOUS
<1>3. PICK q : q = Tail(p)
  OBVIOUS
<1>4. PICK then : then = w.then
  OBVIOUS
<1>5. p # <<>>
  BY <1>1, Zenon DEF file_operation
<1>6. /\ w \in Works /\ p \in Seq(Steps) /\ Sane(t, w) /\ s = p[1] /\ s \in Steps
      /\ 1 \in 1..Len(p)
      /\ s.do \in {"archive", "replace", "unlink", "link", "variable"}
  BY <1>1, <1>2, <1>5, StepIs
<1>7. v.todo = q /\ v.then = then /\ v.entry = w.entry
  BY <1>1, <1>3, <1>4, <1>6 DEF Works
<1>8. /\ q \in Seq(Steps) /\ Len(p) \in Nat /\ Len(p) > 0 /\ Len(q) \in Nat
      /\ Len(q) = Len(p) - 1
      /\ \A i \in 1..Len(q) : i + 1 \in 2..Len(p) /\ q[i] = p[i + 1]
  <2>1. /\ q \in Seq(Steps) /\ Len(p) \in Nat /\ Len(p) > 0
        /\ Len(q) = Len(p) - 1
        /\ \A i \in 1..Len(q) : i + 1 \in 2..Len(p) /\ q[i] = p[i + 1]
    BY <1>3, <1>5, <1>6, Rest, Zenon
  <2> QED
    BY <2>1
<1>9. \A i \in 1..Len(q) : i + 1 \in 1..Len(p) /\ q[i] = p[i + 1]
  BY <1>8
<1>10. Done(s, then)
  BY <1>1, <1>2, <1>4, FileIsDone
<1>11. IsPlan(p) /\ \A i \in 1..Len(p) :
        /\ p[i].do = "variable" <=> then = "variable"
        /\ p[i].do = "replace" /\ then \notin {"undone", "redone"} => i = Len(p)
  BY <1>1, <1>4, <1>6 DEF Sane, IsWork
<1>12. /\ Provided(p, then) /\ MakesOne(p, then) /\ Unneeded(p, then) /\ Repairable(p, then)
       /\ Memorable(w)
  BY <1>1, <1>4 DEF StoreResolves, Settled
<1>13. s.do = "unlink" => Len(q) = 0
  BY <1>6, <1>8, <1>11 DEF IsPlan
<1>14. s.do = "replace" => Len(q) = 0 \/ wentBack'
  <2>1. CASE then \in Returns
    BY <1>10, <2>1 DEF Done
  <2>2. CASE then \notin Returns
    BY <1>6, <1>8, <1>11, <2>2 DEF Returns
  <2> QED
    BY <2>1, <2>2
<1>15. ASSUME NEW i \in 1..Len(q), NEW j \in 1..i
       PROVE  (j = 1 /\ p[j] = s) \/ (j - 1 \in 1..(i - 1) /\ q[j - 1] = p[j])
  <2>1. CASE j = 1
    BY <1>6, <2>1
  <2>2. CASE j # 1
    <3>1. j - 1 \in 1..(i - 1) /\ j - 1 \in 1..Len(q) /\ (j - 1) + 1 = j
      BY <1>8, <2>2
    <3> QED
      BY <1>9, <3>1
  <2> QED
    BY <2>1, <2>2
<1>16. Provided(q, then)'
  <2> SUFFICES ASSUME NEW i \in 1..Len(q), q[i].do \in {"replace", "link"}, removed' => then \notin Returns,
                      NEW r \in q[i].doc.refs
               PROVE  r \in Known' \/ \E j \in 1..(i - 1) : q[j].do = "link" /\ q[j].f = r
    BY DEF Provided
  <2>1. i + 1 \in 1..Len(p) /\ q[i] = p[i + 1] /\ (i + 1) - 1 = i
    BY <1>8, <1>9
  <2>2. removed => then \notin Returns
    BY <1>10 DEF Done
  <2>3. r \in Known \/ \E j \in 1..i : p[j].do = "link" /\ p[j].f = r
    BY <1>12, <2>1, <2>2 DEF Provided
  <2>4. CASE r \in Known
    <3>1. s.do \notin {"unlink", "variable"}
      BY <1>6, <1>11, <1>13, <2>1
    <3> QED
      BY <1>10, <2>4, <3>1 DEF Done
  <2>5. ASSUME NEW j \in 1..i, p[j].do = "link", p[j].f = r
        PROVE  r \in Known' \/ \E k \in 1..(i - 1) : q[k].do = "link" /\ q[k].f = r
    <3>1. CASE p[j] = s
      BY <1>10, <2>5, <3>1 DEF Done
    <3>2. CASE j - 1 \in 1..(i - 1) /\ q[j - 1] = p[j]
      BY <2>5, <3>2
    <3> QED
      BY <1>15, <3>1, <3>2
  <2> QED
    BY <2>3, <2>4, <2>5
<1>17. MakesOne(q, then)'
  <2> SUFFICES ASSUME NEW i \in 1..Len(q), NEW j \in 1..Len(q), q[i].do = "link"
               PROVE  /\ then \notin Returns
                      /\ q[j].do # "unlink"
                      /\ \A k \in 1..Len(q[j].otherwise) :
                            q[j].otherwise[k].do = "unlink" => q[j].otherwise[k].f = q[i].f
    BY DEF MakesOne
  <2> QED
    BY <1>9, <1>12 DEF MakesOne
<1>18. ASSUME NEW i \in 1..Len(q), Replaces(p, i + 1)
       PROVE  Replaces(q, i) \/ s.do = "replace"
  <2>1. i \in Nat /\ (i + 1) - 1 = i
    OBVIOUS
  <2>2. PICK j \in 1..i : p[j].do = "replace"
    BY <1>18, <2>1 DEF Replaces
  <2> QED
    BY <1>15, <2>2 DEF Replaces
<1>19. Unneeded(q, then)'
  <2> SUFFICES ASSUME NEW i \in 1..Len(q), ~wentBack'
               PROVE  /\ q[i].do = "unlink" => Uncalled(q[i].f)' \/ (then \in Returns /\ Replaces(q, i))
                      /\ q[i].do = "variable" => NobodyUses(q[i].f)'
    BY DEF Unneeded, Replaces
  <2>1. i + 1 \in 1..Len(p) /\ q[i] = p[i + 1]
    BY <1>9
  <2>2. ~wentBack /\ s.do \notin {"replace", "unlink"}
    BY <1>10, <1>13, <1>14 DEF Done
  <2>3. ASSUME q[i].do = "unlink"
        PROVE  Uncalled(q[i].f)' \/ (then \in Returns /\ Replaces(q, i))
    <3>1. Uncalled(q[i].f) \/ (then \in Returns /\ Replaces(p, i + 1))
      BY <1>12, <2>1, <2>2, <2>3 DEF Unneeded
    <3>2. s.do = "archive"
      <4>1. s.do # "variable"
        BY <1>6, <1>11, <2>1, <2>3
      <4>2. s.do # "link"
        BY <1>6, <1>12, <2>1, <2>3 DEF MakesOne
      <4> QED
        BY <1>6, <2>2, <4>1, <4>2
    <3>3. documents' = documents
      BY <1>10, <3>2 DEF Done
    <3>4. Uncalled(q[i].f) => Uncalled(q[i].f)'
      BY <3>3 DEF Uncalled, Existing
    <3> QED
      BY <1>18, <3>1, <3>2, <3>4
  <2>4. ASSUME q[i].do = "variable"
        PROVE  NobodyUses(q[i].f)'
    <3>1. NobodyUses(q[i].f)
      BY <1>12, <2>1, <2>2, <2>4 DEF Unneeded
    <3>2. s.do = "variable"
      BY <1>6, <1>11, <2>1, <2>4
    <3>3. documents' = documents
      BY <1>10, <3>2 DEF Done
    <3> QED
      BY <3>1, <3>3 DEF NobodyUses, Existing
  <2> QED
    BY <2>3, <2>4
<1>20. Repairable(q, then)'
  <2> SUFFICES ASSUME NEW i \in 1..Len(q), NEW k \in 1..Len(q[i].otherwise)
               PROVE  /\ q[i].otherwise[k].do = "unlink" /\ ~wentBack' => Uncalled(q[i].otherwise[k].f)'
                      /\ q[i].otherwise[k].do = "replace" =>
                            /\ wentBack' \/ (then \in Returns /\ Replaces(q, i))
                            /\ ~removed' => q[i].otherwise[k].doc.refs \subseteq Known'
    BY DEF Repairable, Replaces
  <2>1. i + 1 \in 1..Len(p) /\ q[i] = p[i + 1]
    BY <1>9
  <2>2. PICK z : z = q[i].otherwise[k]
    OBVIOUS
  <2>3. /\ z.do = "unlink" /\ ~wentBack => Uncalled(z.f)
        /\ z.do = "replace" =>
              /\ wentBack \/ (then \in Returns /\ Replaces(p, i + 1))
              /\ ~removed => z.doc.refs \subseteq Known
    BY <1>12, <2>1, <2>2 DEF Repairable
  <2>4. ASSUME z.do = "unlink", ~wentBack'
        PROVE  Uncalled(z.f)'
    <3>1. Uncalled(z.f) /\ s.do \notin {"replace", "unlink"}
      BY <1>10, <1>13, <1>14, <2>3, <2>4 DEF Done
    <3>2. CASE s.do \in {"archive", "variable"}
      <4>1. documents' = documents
        BY <1>10, <3>2 DEF Done
      <4> QED
        BY <3>1, <4>1 DEF Uncalled, Existing
    <3>3. CASE s.do = "link"
      <4>1. z.f = s.f
        <5>1. PICK j \in 1..Len(p) : j = i + 1
          BY <2>1
        <5>2. k \in 1..Len(p[j].otherwise) /\ p[j].otherwise[k] = z
          BY <2>1, <2>2, <5>1
        <5>3. \A m \in 1..Len(p[j].otherwise) :
                 p[j].otherwise[m].do = "unlink" => p[j].otherwise[m].f = p[1].f
          BY <1>6, <1>12, <3>3 DEF MakesOne
        <5> QED
          BY <1>6, <2>4, <5>2, <5>3
      <4>2. \A g \in Existing' \ {s.f} : g \in Existing /\ documents'[g] = documents[g]
        BY <1>10, <3>3 DEF Done
      <4> QED
        BY <3>1, <4>1, <4>2 DEF Uncalled
    <3> QED
      BY <1>6, <3>1, <3>2, <3>3
  <2>5. ASSUME z.do = "replace"
        PROVE  /\ wentBack' \/ (then \in Returns /\ Replaces(q, i))
               /\ ~removed' => z.doc.refs \subseteq Known'
    <3>1. wentBack' \/ (then \in Returns /\ Replaces(q, i))
      BY <1>10, <1>18, <2>3, <2>5 DEF Done
    <3>2. ~removed' => z.doc.refs \subseteq Known'
      BY <1>10, <2>3, <2>5 DEF Done
    <3> QED
      BY <3>1, <3>2
  <2> QED
    BY <2>2, <2>4, <2>5
<1>21. Memorable(v)'
  <2>1. ~removed' => w.entry.doc.refs \subseteq Known'
    BY <1>10, <1>12 DEF Done, Memorable
  <2>2. ASSUME NEW j \in 1..Len(p)
        PROVE  p[j] = s \/ (j - 1 \in 1..Len(q) /\ q[j - 1] = p[j])
    <3>1. CASE j = 1
      BY <1>6, <3>1
    <3>2. CASE j # 1
      <4>1. j - 1 \in 1..Len(q) /\ (j - 1) + 1 = j
        BY <1>8, <3>2
      <4> QED
        BY <1>9, <4>1
    <3> QED
      BY <3>1, <3>2
  <2>3. (Len(p) + 1) - 1 = Len(p) /\ (Len(q) + 1) - 1 = Len(q)
    BY <1>8
  <2>4. ASSUME w.entry.exists
        PROVE  /\ then \in Returns
               /\ wentBack' \/ Replaces(q, Len(q) + 1)
               /\ removed' \/ \E j \in 1..Len(q) : q[j].do = "unlink"
    <3>1. /\ then \in Returns
          /\ wentBack \/ Replaces(p, Len(p) + 1)
          /\ removed \/ \E j \in 1..Len(p) : p[j].do = "unlink"
      BY <1>1, <1>4, <1>12, <2>4 DEF Memorable
    <3>2. wentBack' \/ Replaces(q, Len(q) + 1)
      <4>1. CASE wentBack
        BY <1>10, <4>1 DEF Done
      <4>2. ASSUME NEW j \in 1..Len(p), p[j].do = "replace"
            PROVE  wentBack' \/ Replaces(q, Len(q) + 1)
        BY <1>10, <2>2, <2>3, <3>1, <4>2 DEF Done, Replaces
      <4> QED
        BY <2>3, <3>1, <4>1, <4>2 DEF Replaces
    <3>3. removed' \/ \E j \in 1..Len(q) : q[j].do = "unlink"
      <4>1. CASE removed
        BY <1>10, <4>1 DEF Done
      <4>2. ASSUME NEW j \in 1..Len(p), p[j].do = "unlink"
            PROVE  removed' \/ \E k \in 1..Len(q) : q[k].do = "unlink"
        BY <1>10, <2>2, <4>2 DEF Done
      <4> QED
        BY <3>1, <4>1, <4>2
    <3> QED
      BY <3>1, <3>2, <3>3
  <2> QED
    BY <1>7, <2>1, <2>4 DEF Memorable, Replaces
<1> QED
  BY <1>7, <1>16, <1>17, <1>19, <1>20, <1>21, Zenon DEF Settled

(* What the others have left to do, after a file operation: delete_variable and*)
(* restore_history may be at work together, one with each lock.            *)
LEMMA OthersResolve ==
    ASSUME StoreBase, StoreResolves, Promised, Promised', NEW t \in Requests, file_operation(t),
           NEW u \in Requests, t # u, NEW x \in {work[u]}
    PROVE  Settled(x)'
<1>1. PICK w \in {work[t]} : TRUE
  OBVIOUS
<1>2. PICK p : p = w.todo
  OBVIOUS
<1>3. PICK s : s = Head(p)
  OBVIOUS
<1>4. p # <<>>
  BY <1>2, Zenon DEF file_operation
<1>5. /\ Sane(t, w) /\ s = p[1] /\ 1 \in 1..Len(p)
      /\ s.do \in {"archive", "replace", "unlink", "link", "variable"}
  BY <1>2, <1>3, <1>4, StepIs
<1>6. Done(s, w.then)
  BY <1>2, <1>3, FileIsDone
<1>7. s.do = "variable" <=> w.then = "variable"
  BY <1>2, <1>5 DEF Sane, IsWork
<1>8. Settled(x) /\ Settled(w)
  BY DEF StoreResolves
<1>9. x \in Works /\ Sane(u, x)
  BY DEF StoreBase, StoreTypes
<1>10. x.todo \in Seq(Steps)
  BY <1>9 DEF Works
<1>11. Memorable(x)'
  BY <1>6, <1>8 DEF Done, Settled, Memorable, Replaces
<1>12. CASE x.todo = <<>>
  <2>1. \A i \in 1..Len(x.todo) : FALSE
    BY <1>12
  <2> QED
    BY <1>11, <2>1 DEF Settled, Provided, MakesOne, Unneeded, Repairable
<1>13. CASE x.todo # <<>> /\ w.then = "variable"
  <2>1. documents' = documents /\ removed' /\ ~wentBack /\ ~wentBack'
    BY <1>6, <1>7, <1>13 DEF Done, Promised
  <2>2. x.then = "restored"
    <3>1. locks.workspace = t
      BY <1>2, <1>4, <1>5, <1>13 DEF Sane, HasLocks
    <3> QED
      BY <1>9, <1>13, <3>1 DEF Sane, HasLocks
  <2>3. Provided(x.todo, x.then)'
    BY <2>1, <2>2 DEF Provided, Returns
  <2>4. MakesOne(x.todo, x.then)'
    BY <1>8 DEF Settled, MakesOne
  <2>5. Unneeded(x.todo, x.then)'
    BY <1>8, <2>1 DEF Settled, Unneeded, Uncalled, NobodyUses, Existing
  <2>6. Repairable(x.todo, x.then)'
    BY <1>8, <2>1 DEF Settled, Repairable, Uncalled, Existing
  <2> QED
    BY <1>11, <2>3, <2>4, <2>5, <2>6 DEF Settled
<1>14. CASE x.todo # <<>> /\ w.then # "variable"
  <2>1. x.then = "variable" /\ \A i \in 1..Len(x.todo) : x.todo[i].do = "variable"
    BY <1>2, <1>4, <1>14, OthersWait
  <2>2. \A i \in 1..Len(x.todo) : x.todo[i].otherwise = <<>>
    <3> TAKE i \in 1..Len(x.todo)
    <3>1. x.todo[i] \in Steps
      BY <1>10
    <3>2. x.todo[i] \in VariableSteps
      BY <2>1, <3>1 DEF Steps, FileSteps
    <3> QED
      BY <3>2 DEF VariableSteps
  <2>3. w.then = "restored"
    <3>1. locks.workspace = u
      BY <1>9, <1>14, <2>1 DEF Sane, HasLocks
    <3> QED
      BY <1>2, <1>4, <1>5, <1>14, <3>1 DEF Sane, HasLocks
  <2>4. s.do # "link"
    <3>1. MakesOne(p, w.then)
      BY <1>2, <1>8 DEF Settled
    <3> QED
      BY <1>5, <2>3, <3>1 DEF MakesOne, Returns
  <2>5. ASSUME ~wentBack'
        PROVE  \A g \in Existing' : g \in Existing /\ documents'[g] = documents[g]
    <3>1. s.do \in {"archive", "unlink"}
      BY <1>5, <1>6, <1>7, <1>14, <2>3, <2>4, <2>5 DEF Done, Returns
    <3>2. s.do = "archive" => Existing' = Existing /\ documents' = documents
      BY <1>6 DEF Done, Existing
    <3> QED
      BY <1>6, <3>1, <3>2 DEF Done
  <2>6. Provided(x.todo, x.then)'
    BY <2>1 DEF Provided
  <2>7. MakesOne(x.todo, x.then)'
    BY <1>8 DEF Settled, MakesOne
  <2>8. Unneeded(x.todo, x.then)'
    <3> SUFFICES ASSUME NEW i \in 1..Len(x.todo), ~wentBack'
                 PROVE  NobodyUses(x.todo[i].f)'
      BY <2>1 DEF Unneeded
    <3>1. NobodyUses(x.todo[i].f)
      BY <1>6, <1>8, <2>1 DEF Done, Settled, Unneeded
    <3> QED
      BY <2>5, <3>1 DEF NobodyUses
  <2>9. Repairable(x.todo, x.then)'
    BY <2>2 DEF Repairable
  <2> QED
    BY <1>11, <2>6, <2>7, <2>8, <2>9 DEF Settled
<1> QED
  BY <1>12, <1>13, <1>14

(* A file operation, for everything that is promised.                      *)
LEMMA FileResolves ==
    ASSUME StoreBase, StoreResolves, NEW t \in Requests, file_operation(t)
    PROVE  StoreResolves'
<1>1. PICK w \in {work[t]} : TRUE
  OBVIOUS
<1>2. PICK v : v = [w EXCEPT !.todo = Tail(@)]
  OBVIOUS
<1>3. work' = [work EXCEPT ![t] = v] /\ UNCHANGED <<undos, redos>>
  BY <1>2 DEF file_operation
<1> SUFFICES ASSUME Promised'
             PROVE  (/\ DocumentsKnown /\ HistoryKnown /\ NothingTakenBack
                     /\ \A u \in Requests : \A x \in {work[u]} : Settled(x))'
  BY DEF StoreResolves
<1>4. PICK s : s = Head(w.todo)
  OBVIOUS
<1>5. Promised
  BY <1>4, FileIsDone DEF Done, Promised
<1>6. DocumentsKnown' /\ HistoryKnown'
  BY <1>5, DocumentsResolve, HistoryResolves
<1>7. NothingTakenBack'
  BY <1>3, <1>5 DEF StoreResolves, NothingTakenBack
<1>8. ASSUME NEW u \in Requests, NEW x \in {work'[u]} PROVE Settled(x)'
  <2>1. CASE u = t
    <3>1. x = v
      BY <2>1, <1>3 DEF StoreBase, StoreTypes
    <3>2. Settled(v)'
      BY <1>2, <1>5, RestResolves
    <3> QED
      BY <3>1, <3>2
  <2>2. CASE u # t
    <3>1. x \in {work[u]}
      BY <2>2, <1>3 DEF StoreBase, StoreTypes
    <3> QED
      BY <2>2, <3>1, <1>5, OthersResolve
  <2> QED
    BY <2>1, <2>2
<1> QED
  BY <1>6, <1>7, <1>8

-----------------------------------------------------------------------------
(* An operation that begins with a plan that is settled.                   *)
LEMMA BeginsResolves ==
    ASSUME StoreBase, StoreResolves, NEW t \in Requests, NEW plan, NEW then, NEW f, NEW entry, NEW w,
           w = [todo |-> plan, then |-> then, f |-> f, entry |-> entry], Promised => Settled(w),
           begins(t, plan, then, f, entry)
    PROVE  StoreResolves'
BY BeginResolves DEF begins

(* create.                                                                 *)
LEMMA CreateResolves ==
    ASSUME StoreBase, StoreResolves, NEW t \in Requests, NEW f \in Functions, create(t, f)
    PROVE  StoreResolves'
<1>1. PICK w : w = [todo |-> CreatePlan(f, Document({})), then |-> "nothing", f |-> f,
                    entry |-> Former(NoDocument)]
  OBVIOUS
<1>2. Document({}).refs = {}
  BY DEF Document
<1>3. Settled(w)
  BY <1>1, <1>2, CreateIsSettled
<1> QED
  BY <1>1, <1>3, BeginsResolves DEF create

(* Commands and rename, whose references are there.                        *)
LEMMA EditResolves ==
    ASSUME StoreBase, StoreResolves, NEW t \in Requests, NEW f \in Functions, NEW refs \in SUBSET Names,
           edit(t, f, refs), Promised => refs \subseteq Known
    PROVE  StoreResolves'
<1>1. PICK w : w = [todo |-> SavePlan(f, Document(refs), <<>>), then |-> "edited", f |-> f,
                    entry |-> Former(documents[f])]
  OBVIOUS
<1>2. f \in Existing /\ documents[f] \in Docs /\ documents[f].there
  BY DEF edit, Existing, StoreBase, StoreTypes
<1>3. Document(refs).refs = refs
  BY DocumentIs
<1>4. PICK entry : entry = Former(documents[f])
  OBVIOUS
<1>5. entry.doc = documents[f] /\ ~entry.exists
  BY <1>2, <1>4, FormerIs
<1>6. ASSUME Promised PROVE Settled(w)
  <2>1. documents[f].refs \subseteq Known
    BY <1>2, <1>6 DEF StoreResolves, DocumentsKnown
  <2> QED
    BY <1>1, <1>3, <1>4, <1>5, <1>6, <2>1, SaveIsSettled
<1>7. begins(t, SavePlan(f, Document(refs), <<>>), "edited", f, Former(documents[f]))
  BY DEF edit
<1> QED
  BY <1>1, <1>6, <1>7, BeginsResolves

(* What an edit looks up is there, and what it does not look up was there before.*)
LEMMA ResolvedIsKnown ==
    ASSUME StoreResolves, Promised, NEW f \in Existing, NEW refs \in SUBSET Names, Resolved(f, refs)
    PROVE  refs \subseteq Known
<1>1. documents[f].refs \subseteq Known
  BY DEF StoreResolves, DocumentsKnown
<1> QED
  BY <1>1 DEF Resolved, Names, Known

(* extract_statements: nobody calls an identity that has never been used.  *)
LEMMA ExtractResolves ==
    ASSUME StoreBase, StoreResolves, NEW t \in Requests, NEW f \in Functions, NEW e \in Functions,
           NEW taken \in SUBSET documents[f].refs, extract_statements(t, f, e, taken)
    PROVE  StoreResolves'
<1>1. documents[f].there /\ documents[f] \in Docs /\ documents[f].refs \subseteq Names /\ f \in Existing
  BY DEF extract_statements, Existing, StoreBase, StoreTypes, Docs
<1>2. PICK extracted : extracted = Document(taken)
  OBVIOUS
<1>3. PICK source : source = Document((documents[f].refs \ taken) \cup {e})
  OBVIOUS
<1>4. PICK entry : entry = [doc |-> documents[f], companion |-> {e}, extracted |-> extracted,
                            exists |-> FALSE]
  OBVIOUS
<1>5. PICK w : w = [todo |-> CompanionPlan(f, source, e, extracted, TRUE), then |-> "edited", f |-> f,
                    entry |-> entry]
  OBVIOUS
<1>6. taken \in SUBSET Names /\ (documents[f].refs \ taken) \cup {e} \in SUBSET Names
  BY <1>1 DEF Names
<1>7. /\ extracted \in Docs /\ extracted.refs = taken
      /\ source \in Docs /\ source.refs = (documents[f].refs \ taken) \cup {e}
  BY <1>2, <1>3, <1>6, DocumentIs
<1>8. begins(t, CompanionPlan(f, source, e, extracted, TRUE), "edited", f, entry)
  BY <1>2, <1>3, <1>4, Zenon DEF extract_statements
<1>9. documents[f].refs \subseteq Known /\ e \notin Existing
  BY DEF extract_statements, Known, Unused, Existing
<1>10. ASSUME Promised PROVE Settled(w)
  <2>1. Uncalled(e)
    <3>1. e \notin variables
      BY ProgramAssumption DEF StoreBase, StoreTypes
    <3>2. \A g \in Existing : documents[g].refs \subseteq Known
      BY <1>10 DEF StoreResolves, DocumentsKnown
    <3> QED
      BY <1>9, <3>1, <3>2 DEF Uncalled, Known
  <2>2. extracted.refs \subseteq Known /\ source.refs \subseteq Known \cup {e}
    BY <1>7, <1>9
  <2>3. entry.doc.refs \subseteq Known /\ ~entry.exists
    BY <1>4, <1>9
  <2> QED
    BY <1>5, <1>7, <2>1, <2>2, <2>3, AppearIsSettled
<1> QED
  BY <1>5, <1>8, <1>10, BeginsResolves

(* Undo and redo: an entry that makes a function again exists only after one*)
(* was removed and brought back.                                           *)
LEMMA GoBackResolves ==
    ASSUME StoreBase, StoreResolves, NEW t \in Requests, NEW f \in Functions,
           NEW then \in {"undone", "redone"},
           NEW stack \in {undos[f], redos[f]}, go_back(t, f, stack, then)
    PROVE  StoreResolves'
<1>1. documents[f].there /\ documents[f] \in Docs /\ stack \in Seq(Entries) /\ stack # <<>>
      /\ f \in Existing
  BY DEF go_back, Existing, StoreBase, StoreTypes
<1>2. Len(stack) \in 1..Len(stack)
  BY <1>1
<1>3. PICK entry : entry = stack[Len(stack)]
  OBVIOUS
<1>4. entry \in Entries
  BY <1>1, <1>2, <1>3
<1>5. entry.doc \in Docs /\ entry.exists \in BOOLEAN /\ entry.companion \subseteq Functions
  BY <1>4 DEF Entries
<1>6. Promised => /\ ~entry.exists
                  /\ ~removed => entry.doc.refs \subseteq Known
                  /\ documents[f].refs \subseteq Known
  <2>1. Promised => ~entry.exists
    BY <1>2, <1>3 DEF StoreResolves, NothingTakenBack
  <2>2. Promised /\ ~removed => entry.doc.refs \subseteq Known
    BY <1>2, <1>3 DEF StoreResolves, HistoryKnown
  <2>3. Promised => documents[f].refs \subseteq Known
    BY <1>1 DEF StoreResolves, DocumentsKnown
  <2> QED
    BY <2>1, <2>2, <2>3
<1>7. CASE entry.companion = {}
  <2>1. PICK now : now = [entry EXCEPT !.doc = documents[f]]
    OBVIOUS
  <2>2. now.doc = documents[f] /\ now.exists = entry.exists
    BY <1>4, <2>1 DEF Entries
  <2>3. PICK w : w = [todo |-> SavePlan(f, entry.doc, <<>>), then |-> then, f |-> f, entry |-> now]
    OBVIOUS
  <2>4. Promised => Settled(w)
    <3>1. then \in Returns
      BY DEF Returns
    <3> QED
      BY <1>6, <2>2, <2>3, <3>1, SaveIsSettled
  <2>5. begins(t, SavePlan(f, entry.doc, <<>>), then, f, now)
    BY <1>3, <1>7, <2>1, Zenon DEF go_back
  <2> QED
    BY <2>3, <2>4, <2>5, BeginsResolves
<1>8. CASE entry.companion # {}
  <2>0. PICK e \in entry.companion :
          begins(t, CompanionPlan(f, entry.doc, e, entry.extracted, entry.exists), then, f,
                 [entry EXCEPT !.doc = documents[f], !.exists = ~@])
    BY <1>3, <1>8, Zenon DEF go_back
  <2>1. PICK now : now = [entry EXCEPT !.doc = documents[f], !.exists = ~@]
    OBVIOUS
  <2>2. now.doc = documents[f]
    BY <1>4, <2>1 DEF Entries
  <2>3. PICK w : w = [todo |-> CompanionPlan(f, entry.doc, e, entry.extracted, entry.exists),
                      then |-> then, f |-> f, entry |-> now]
    OBVIOUS
  <2>4. ASSUME Promised PROVE Settled(w)
    <3>1. w = [todo |-> CompanionPlan(f, entry.doc, e, entry.extracted, FALSE),
               then |-> then, f |-> f, entry |-> now]
      BY <1>5, <1>6, <2>3, <2>4
    <3>2. e \in Functions
      BY <1>5
    <3> QED
      BY <1>1, <1>5, <1>6, <2>2, <2>4, <3>1, <3>2, DisappearIsSettled
  <2>5. begins(t, CompanionPlan(f, entry.doc, e, entry.extracted, entry.exists), then, f, now)
    BY <2>0, <2>1, Zenon
  <2> QED
    BY <2>3, <2>4, <2>5, BeginsResolves
<1> QED
  BY <1>7, <1>8

(* delete: the function has no callers.                                    *)
LEMMA DeleteResolves ==
    ASSUME StoreBase, StoreResolves, NEW t \in Requests, NEW f \in Functions, delete(t, f)
    PROVE  StoreResolves'
<1>1. PICK w : w = [todo |-> DeletePlan(f, <<>>), then |-> "deleted", f |-> f,
                    entry |-> Former(NoDocument)]
  OBVIOUS
<1>2. Uncalled(f)
  BY DEF delete, Removable, Uncalled
<1>3. Settled(w)
  BY <1>1, <1>2, DeleteIsSettled
<1> QED
  BY <1>1, <1>3, BeginsResolves DEF delete

(* restore_history: every version in the archive can come back until something*)
(* is removed.                                                             *)
LEMMA RestoreResolves ==
    ASSUME StoreBase, StoreResolves, NEW t \in Requests, NEW f \in Functions, NEW n \in DOMAIN archive[f],
           restore_history(t, f, n)
    PROVE  StoreResolves'
<1>1. archive[f] \in Seq(Docs)
  BY DEF StoreBase, StoreTypes
<1>2. n \in 1..Len(archive[f])
  BY <1>1
<1>3. PICK w : w = [todo |-> SavePlan(f, archive[f][n], <<>>), then |-> "restored", f |-> f,
                    entry |-> Former(NoDocument)]
  OBVIOUS
<1>4. ASSUME Promised PROVE Settled(w)
  <2>1. ~removed => archive[f][n].refs \subseteq Known
    BY <1>2, <1>4 DEF StoreResolves, HistoryKnown
  <2>2. "restored" \in Returns
    BY DEF Returns
  <2> QED
    BY <1>3, <2>1, <2>2, FormerOfNothing, SaveIsSettled
<1>5. begins(t, SavePlan(f, archive[f][n], <<>>), "restored", f, Former(NoDocument))
  BY DEF restore_history
<1> QED
  BY <1>3, <1>4, <1>5, BeginsResolves

(* delete_variable: nobody uses the variable.                              *)
LEMMA DeleteVariableResolves ==
    ASSUME StoreBase, StoreResolves, NEW t \in Requests, NEW v \in Variables, delete_variable(t, v)
    PROVE  StoreResolves'
<1>1. PICK w : w = [NoWork EXCEPT !.todo = <<FileStep("variable", v, NoDocument, <<>>)>>,
                                  !.then = "variable"]
  OBVIOUS
<1>2. NobodyUses(v)
  BY DEF delete_variable, NobodyUses
<1>3. Settled(w)
  BY <1>1, <1>2, VariableIsSettled
<1>4. work \in [Requests -> Works]
  BY DEF StoreBase, StoreTypes
<1>5. work' = [work EXCEPT ![t] = w]
  BY <1>1, <1>4 DEF delete_variable
<1>6. UNCHANGED <<documents, variables, archive, undos, redos, wentBack, removed>>
  BY DEF delete_variable
<1> QED
  BY <1>3, <1>5, <1>6, BeginResolves

(* A new project calls nothing.                                            *)
LEMMA StoreResolvesInit == ProgramInit => StoreResolves
<1> SUFFICES ASSUME ProgramInit PROVE StoreResolves
  OBVIOUS
<1> USE DEF ProgramInit
<1>1. \A i \in 1..Len(<<>>) : FALSE
  OBVIOUS
<1>2. DocumentsKnown
  BY DEF DocumentsKnown, Existing, Document, NoDocument
<1>3. HistoryKnown /\ NothingTakenBack
  BY <1>1 DEF HistoryKnown, NothingTakenBack
<1>4. \A t \in Requests : \A w \in {work[t]} : Settled(w)
  BY IdleIsSettled
<1> QED
  BY <1>2, <1>3, <1>4 DEF StoreResolves

(* Every step keeps what is promised.                                      *)
LEMMA StoreResolvesNext ==
    ASSUME StoreBase, StoreResolves, [ProgramNext]_programVars
    PROVE  StoreResolves'
<1>1. CASE UNCHANGED programVars
  <2> SUFFICES ASSUME Promised'
               PROVE  (/\ DocumentsKnown /\ HistoryKnown /\ NothingTakenBack
                       /\ \A u \in Requests : \A x \in {work[u]} : Settled(x))'
    BY DEF StoreResolves
  <2>1. Promised
    BY <1>1 DEF Promised, programVars
  <2>2. (DocumentsKnown /\ HistoryKnown /\ NothingTakenBack)'
    BY <1>1, <2>1 DEF programVars, StoreResolves, DocumentsKnown, HistoryKnown, NothingTakenBack,
       Known, Existing
  <2>3. ASSUME NEW u \in Requests, NEW x \in {work'[u]} PROVE Settled(x)'
    <3>1. Settled(x)
      BY <1>1, <2>1 DEF programVars, StoreResolves
    <3>2. UNCHANGED <<documents, variables, wentBack, removed>>
      BY <1>1 DEF programVars
    <3> QED
      BY <3>1, <3>2, SettledStays
  <2> QED
    BY <2>2, <2>3
<1>2. CASE process_restarts
  BY <1>2, RestartResolves
<1>3. ASSUME NEW t \in Requests, NEW f \in Functions, create(t, f) PROVE StoreResolves'
  BY <1>3, CreateResolves
<1>4. ASSUME NEW t \in Requests, NEW f \in Functions, delete(t, f) PROVE StoreResolves'
  BY <1>4, DeleteResolves
<1>5. ASSUME NEW t \in Requests, NEW f \in Functions, undo_edit(t, f) PROVE StoreResolves'
  BY <1>5, GoBackResolves DEF undo_edit
<1>6. ASSUME NEW t \in Requests, NEW f \in Functions, redo_edit(t, f) PROVE StoreResolves'
  BY <1>6, GoBackResolves DEF redo_edit
<1>7. ASSUME NEW t \in Requests, NEW f \in Functions, NEW name \in Names, apply_command(t, f, name)
      PROVE  StoreResolves'
  <2>1. documents[f].refs \subseteq Names
    BY DEF StoreBase, StoreTypes, Docs
  <2>2. PICK refs : refs = IF name \in documents[f].refs THEN documents[f].refs \ {name}
                           ELSE documents[f].refs \cup {name}
    OBVIOUS
  <2>3. refs \in SUBSET Names
    BY <2>1, <2>2
  <2>4. edit(t, f, refs) /\ Resolved(f, refs)
    BY <1>7, <2>2 DEF apply_command
  <2>5. f \in Existing
    BY <2>4 DEF edit
  <2> QED
    BY <2>3, <2>4, <2>5, ResolvedIsKnown, EditResolves
<1>8. ASSUME NEW t \in Requests, NEW f \in Functions, NEW refs \in SUBSET Names, apply_commands(t, f, refs)
      PROVE  StoreResolves'
  <2>1. edit(t, f, refs) /\ Resolved(f, refs)
    BY <1>8 DEF apply_commands
  <2>2. f \in Existing
    BY <2>1 DEF edit
  <2> QED
    BY <2>1, <2>2, ResolvedIsKnown, EditResolves
<1>9. ASSUME NEW t \in Requests, NEW f \in Functions, rename(t, f) PROVE StoreResolves'
  <2>1. documents[f].refs \in SUBSET Names
    BY DEF StoreBase, StoreTypes, Docs
  <2>2. edit(t, f, documents[f].refs) /\ f \in Existing
    BY <1>9 DEF rename, edit
  <2>3. Promised => documents[f].refs \subseteq Known
    BY <2>2 DEF StoreResolves, DocumentsKnown
  <2> QED
    BY <2>1, <2>2, <2>3, EditResolves
<1>10. ASSUME NEW t \in Requests, NEW f \in Functions, NEW e \in Functions,
              NEW taken \in SUBSET documents[f].refs, extract_statements(t, f, e, taken)
       PROVE  StoreResolves'
  BY <1>10, ExtractResolves
<1>11. ASSUME NEW t \in Requests, NEW f \in Functions, NEW n \in DOMAIN archive[f],
              restore_history(t, f, n)
       PROVE  StoreResolves'
  BY <1>11, RestoreResolves
<1>12. ASSUME NEW t \in Requests, NEW v \in Variables, delete_variable(t, v) PROVE StoreResolves'
  BY <1>12, DeleteVariableResolves
<1>13. ASSUME NEW t \in Requests,
              file_operation(t) \/ file_operation_fails(t) \/ request_ends(t)
       PROVE  StoreResolves'
  BY <1>13, FileResolves, FailResolves, EndResolves
<1> QED
  BY <1>1, <1>2, <1>3, <1>4, <1>5, <1>6, <1>7, <1>8, <1>9, <1>10, <1>11, <1>12, <1>13, Zenon
  DEF ProgramNext

(* Every call and every use is resolved, whatever fails and wherever the process*)
(* ends, until a version was brought back and something was removed.       *)
THEOREM CallsResolve == ProgramSpec => []ReferencesResolve
<1>1. ProgramInit => StoreResolves
  BY StoreResolvesInit
<1>2. StoreBase /\ StoreResolves /\ [ProgramNext]_programVars => StoreResolves'
  BY StoreResolvesNext
<1>3. StoreResolves => ReferencesResolve
  <2> SUFFICES ASSUME StoreResolves, Promised PROVE Dangling = {}
    BY DEF ReferencesResolve, Promised
  <2>1. DocumentsKnown
    BY DEF StoreResolves
  <2> QED
    BY <2>1 DEF Dangling, DocumentsKnown, Known
<1> QED
  BY <1>1, <1>2, <1>3, StoreIsConsistent, PTL DEF ProgramSpec

-----------------------------------------------------------------------------
IsSeq(s) == \E S : s \in Seq(S)

IsPop(p, s) ==
    /\ IsSeq(p) /\ Len(s) \in Nat /\ Len(s) > 0 /\ Len(p) \in Nat /\ Len(p) = Len(s) - 1
    /\ \A i \in 1..Len(p) : i \in 1..Len(s) /\ p[i] = s[i]

IsPush(p, s, x) ==
    /\ IsSeq(p) /\ Len(s) \in Nat /\ Len(p) = Len(s) + 1 /\ p # <<>>
    /\ \A i \in 1..Len(s) : i \in 1..Len(p) /\ p[i] = s[i]
    /\ p[Len(p)] = x

(* A stack without its top.                                                *)
LEMMA Popped ==
    ASSUME NEW s, IsSeq(s), s # <<>>
    PROVE  IsPop(Front(s), s) /\ Last(s) = s[Len(s)] /\ Len(s) \in 1..Len(s)
<1>1. PICK S : s \in Seq(S)
  BY DEF IsSeq
<1>2. Len(s) \in Nat /\ Len(s) > 0
  BY <1>1
<1>3. Front(s) = SubSeq(s, 1, Len(s) - 1) /\ Last(s) = s[Len(s)]
  BY DEF Front, Last
<1>4. /\ Front(s) \in Seq(S) /\ Len(Front(s)) = Len(s) - 1
      /\ \A i \in 1..(Len(s) - 1) : Front(s)[i] = s[i]
  <2> DEFINE n == Len(s) - 1
  <2>0. n \in Nat /\ \A i \in 1..n : i \in 1..Len(s)
    BY <1>2
  <2>1. n \in Int /\ 1 \in Int /\ \A i \in 1..n : s[i] \in S
    BY <1>1, <2>0
  <2> HIDE DEF n
  <2>2. (IF 1 <= n THEN n - 1 + 1 ELSE 0) = n /\ n - 1 + 1 = n /\ \A i \in 1..n : 1 + i - 1 = i
    BY <2>0
  <2>3. /\ SubSeq(s, 1, n) \in Seq(S)
        /\ Len(SubSeq(s, 1, n)) = IF 1 <= n THEN n - 1 + 1 ELSE 0
        /\ \A i \in 1..(n - 1 + 1) : SubSeq(s, 1, n)[i] = s[1 + i - 1]
    BY <2>1, SubSeqProperties
  <2>4. SubSeq(s, 1, n) \in Seq(S) /\ Len(SubSeq(s, 1, n)) = n /\ \A i \in 1..n : SubSeq(s, 1, n)[i] = s[i]
    BY <2>2, <2>3
  <2>5. Front(s) = SubSeq(s, 1, n)
    BY <1>3 DEF n
  <2>6. Front(s) \in Seq(S) /\ Len(Front(s)) = n /\ \A i \in 1..n : Front(s)[i] = s[i]
    BY <2>4, <2>5
  <2> QED
    BY <2>6 DEF n
<1>5. IsSeq(Front(s))
  BY <1>4 DEF IsSeq
<1>6. IsPop(Front(s), s)
  BY <1>2, <1>4, <1>5 DEF IsPop
<1> QED
  BY <1>2, <1>3, <1>6

(* A stack with a new top.                                                 *)
LEMMA Pushed ==
    ASSUME NEW s, IsSeq(s), NEW x
    PROVE  IsPush(Append(s, x), s, x)
<1>1. PICK S : s \in Seq(S)
  BY DEF IsSeq
<1>2. s \in Seq(S \cup {x}) /\ x \in S \cup {x}
  BY <1>1
<1> DEFINE T == S \cup {x}
<1>3. s \in Seq(T) /\ x \in T
  BY <1>2
<1> HIDE DEF T
<1>4. /\ Append(s, x) \in Seq(T) /\ Len(s) \in Nat /\ Len(Append(s, x)) = Len(s) + 1
      /\ Append(s, x) # <<>>
      /\ \A i \in 1..Len(s) : Append(s, x)[i] = s[i]
      /\ Append(s, x)[Len(s) + 1] = x
  BY <1>3
<1>5. IsSeq(Append(s, x))
  BY <1>4 DEF IsSeq
<1> QED
  BY <1>4, <1>5 DEF IsPush

Twice(s, x, y) == s \o <<x, y>> = Append(Append(s, x), y)

(* Two new tops, one after the other.                                      *)
LEMMA PushedTwice == ASSUME NEW s, IsSeq(s), NEW x, NEW y PROVE Twice(s, x, y)
<1>1. PICK S : s \in Seq(S)
  BY DEF IsSeq
<1> DEFINE T == S \cup {x, y}
<1>2. s \in Seq(T) /\ x \in T /\ y \in T
  BY <1>1
<1> HIDE DEF T
<1>3. /\ <<x, y>> \in Seq(T) /\ Len(<<x, y>>) = 2 /\ <<x, y>>[1] = x /\ <<x, y>>[2] = y
      /\ Len(s) \in Nat
  BY <1>2
<1>4. /\ s \o <<x, y>> \in Seq(T)
      /\ Len(s \o <<x, y>>) = Len(s) + 2
      /\ \A i \in 1..(Len(s) + 2) :
            (s \o <<x, y>>)[i] = IF i <= Len(s) THEN s[i] ELSE <<x, y>>[i - Len(s)]
  BY <1>2, <1>3, ConcatProperties
<1> DEFINE p == s \o <<x, y>>
           q == Append(Append(s, x), y)
<1>5. q \in Seq(T) /\ Len(q) = Len(s) + 2
      /\ (\A i \in 1..Len(s) : q[i] = s[i]) /\ q[Len(s) + 1] = x /\ q[Len(s) + 2] = y
  BY <1>2, <1>3
<1>6. ASSUME NEW i \in 1..Len(p) PROVE p[i] = q[i]
  <2>1. i \in 1..Len(s) \/ i = Len(s) + 1 \/ i = Len(s) + 2
    BY <1>3, <1>4
  <2>2. CASE i \in 1..Len(s)
    BY <1>3, <1>4, <1>5, <2>2
  <2>3. CASE i = Len(s) + 1
    <3>1. ~(i <= Len(s)) /\ i - Len(s) = 1 /\ i \in 1..(Len(s) + 2)
      BY <1>3, <2>3
    <3> QED
      BY <1>3, <1>4, <1>5, <2>3, <3>1
  <2>4. CASE i = Len(s) + 2
    <3>1. ~(i <= Len(s)) /\ i - Len(s) = 2 /\ i \in 1..(Len(s) + 2)
      BY <1>3, <2>4
    <3> QED
      BY <1>3, <1>4, <1>5, <2>4, <3>1
  <2> QED
    BY <2>1, <2>2, <2>3, <2>4
<1>7. p \in Seq(T) /\ Len(p) = Len(q)
  BY <1>4, <1>5
<1> HIDE DEF p, q
<1>8. p = q
  BY <1>5, <1>6, <1>7, SeqEqual
<1> QED
  BY <1>8 DEF p, q, Twice

-----------------------------------------------------------------------------
IsScope(x) ==
    /\ "kind" \in DOMAIN x /\ x.kind = "scope"
    /\ x.acquired \in BOOLEAN /\ x.pushed \in BOOLEAN
    /\ x.acquired => x.pushed /\ x.target \in Targets
Plain(x) == "kind" \in DOMAIN x /\ x.kind \notin {"opening", "entering", "scope", "handler"}
Handles(F, i) == F[i].kind = "handler" /\ i > 1 /\ F[i - 1].kind = "dispatch"
FrameOk(F, i) == Plain(F[i]) \/ IsScope(F[i]) \/ Handles(F, i)

\* How deep the stack of targets is at every frame.
Scoped(F, S, h, d) ==
    /\ d \in [0..Len(F) -> 1..Len(S)]
    /\ d[Len(F)] = Len(S)
    /\ \A i \in 0..Len(F) : \A j \in 0..Len(F) : i <= j => d[i] <= d[j]
    /\ \A i \in 1..Len(F) :
          IF F[i].kind = "scope" /\ F[i].pushed THEN d[i] = d[i - 1] + 1 ELSE d[i] = d[i - 1]
    /\ \A i \in 0..Len(F) : \A k \in 1..i :
          F[k].kind = "scope" /\ (\A j \in (k + 1)..i : F[j].kind # "scope") => S[d[i]] = F[k].target
    /\ \A i \in 0..Len(F) : (\A k \in 1..i : F[k].kind # "scope") => S[d[i]] = h

Acquired(F) == {i \in 1..Len(F) : F[i].kind \in {"scope", "entering"} /\ F[i].acquired}
Held(F) == {F[i].target : i \in Acquired(F)}

\* The frames of a run at work, its stack of targets and its default target.
Good(F, S, h) ==
    /\ IsSeq(F) /\ IsSeq(S) /\ S # <<>>
    /\ \A i \in 1..Len(F) : FrameOk(F, i)
    /\ \E d : Scoped(F, S, h, d)
    /\ \A i \in Acquired(F) : F[i].target # h /\ \A j \in Acquired(F) : F[i].target = F[j].target => i = j

(* What a run holds is on its stack.                                       *)
LEMMA HeldIsStacked ==
    ASSUME NEW F, NEW S, NEW h, Good(F, S, h)
    PROVE  Held(F) \subseteq ToSet(S) /\ h \in ToSet(S)
<1>1. PICK d : Scoped(F, S, h, d)
  BY DEF Good
<1>2. PICK X : S \in Seq(X)
  BY DEF Good, IsSeq
<1>3. PICK Y : F \in Seq(Y)
  BY DEF Good, IsSeq
<1>4. Len(F) \in Nat /\ Len(S) \in Nat
  BY <1>2, <1>3
<1>5. ToSet(S) = {S[i] : i \in 1..Len(S)}
  BY <1>2 DEF ToSet
<1>6. ASSUME NEW i \in Acquired(F) PROVE F[i].target \in ToSet(S)
  <2>1. i \in 1..Len(F) /\ F[i].kind = "scope"
    BY DEF Acquired, Good, FrameOk, Plain, IsScope, Handles
  <2>2. i \in 0..Len(F) /\ i \in 1..i /\ \A j \in (i + 1)..i : FALSE
    BY <1>4, <2>1
  <2>3. S[d[i]] = F[i].target /\ d[i] \in 1..Len(S)
    BY <1>1, <2>1, <2>2 DEF Scoped
  <2> QED
    BY <1>5, <2>3
<1>7. h \in ToSet(S)
  <2>1. 0 \in 0..Len(F) /\ \A k \in 1..0 : FALSE
    BY <1>4
  <2>2. S[d[0]] = h /\ d[0] \in 1..Len(S)
    BY <1>1, <2>1 DEF Scoped
  <2> QED
    BY <1>5, <2>2
<1> QED
  BY <1>6, <1>7 DEF Held

(* The current target is the one of the innermost scope.                   *)
LEMMA InnermostIsCurrent ==
    ASSUME NEW F, NEW S, NEW h, Good(F, S, h)
    PROVE  /\ (\A i \in 1..Len(F) : F[i].kind # "scope") => Last(S) = h
           /\ \A i \in 1..Len(F) :
                 F[i].kind = "scope" /\ (\A j \in 1..Len(F) : F[j].kind = "scope" => j <= i)
                 => Last(S) = F[i].target
<1>1. PICK d : Scoped(F, S, h, d)
  BY DEF Good
<1>2. PICK Y : F \in Seq(Y)
  BY DEF Good, IsSeq
<1>3. Len(F) \in Nat /\ Len(F) \in 0..Len(F)
  BY <1>2
<1>4. S[d[Len(F)]] = Last(S)
  BY <1>1 DEF Scoped, Last
<1>5. (\A i \in 1..Len(F) : F[i].kind # "scope") => Last(S) = h
  BY <1>1, <1>3, <1>4 DEF Scoped
<1>6. ASSUME NEW i \in 1..Len(F), F[i].kind = "scope",
             \A j \in 1..Len(F) : F[j].kind = "scope" => j <= i
      PROVE  Last(S) = F[i].target
  <2>1. \A j \in (i + 1)..Len(F) : F[j].kind # "scope"
    BY <1>3, <1>6
  <2> QED
    BY <1>1, <1>3, <1>4, <1>6, <2>1 DEF Scoped
<1> QED
  BY <1>5, <1>6

(* The depths below the top.                                               *)
LEMMA ScopedBelow ==
    ASSUME NEW F, NEW S, NEW h, NEW d, Scoped(F, S, h, d), NEW B, IsPop(B, F),
           NEW T, Len(S) \in Nat, Len(T) \in Nat, Len(T) = d[Len(B)], \A i \in 1..Len(T) : T[i] = S[i],
           NEW c, c = [i \in 0..Len(B) |-> d[i]]
    PROVE  Scoped(B, T, h, c)
<1>1. /\ Len(F) \in Nat /\ Len(F) > 0 /\ Len(B) \in Nat /\ Len(B) = Len(F) - 1
      /\ \A i \in 1..Len(B) : i \in 1..Len(F) /\ B[i] = F[i]
  BY DEF IsPop
<1>2. \A i \in 0..Len(B) : i \in 0..Len(F) /\ c[i] = d[i] /\ d[i] \in 1..Len(S)
  <2>1. d \in [0..Len(F) -> 1..Len(S)]
    BY DEF Scoped
  <2>2. \A i \in 0..Len(B) : i \in 0..Len(F) /\ c[i] = d[i]
    BY <1>1
  <2> QED
    BY <2>1, <2>2
<1>3. Len(B) \in 0..Len(B)
  BY <1>1
<1>4. \A i \in 0..Len(B) : d[i] <= Len(T)
  BY <1>1, <1>2, <1>3 DEF Scoped
<1>5. \A i \in 0..Len(B) : c[i] \in 1..Len(T) /\ T[c[i]] = S[d[i]]
  BY <1>2, <1>4
<1>6. c \in [0..Len(B) -> 1..Len(T)]
  BY <1>5
<1>7. c[Len(B)] = Len(T)
  BY <1>2, <1>3
<1>8. \A i \in 0..Len(B) : \A j \in 0..Len(B) : i <= j => c[i] <= c[j]
  BY <1>2 DEF Scoped
<1>9. ASSUME NEW i \in 1..Len(B)
      PROVE  IF B[i].kind = "scope" /\ B[i].pushed THEN c[i] = c[i - 1] + 1 ELSE c[i] = c[i - 1]
  <2>1. i \in 1..Len(F) /\ B[i] = F[i] /\ i \in 0..Len(B) /\ i - 1 \in 0..Len(B)
    BY <1>1
  <2>2. c[i] = d[i] /\ c[i - 1] = d[i - 1]
    BY <1>2, <2>1
  <2>3. IF F[i].kind = "scope" /\ F[i].pushed THEN d[i] = d[i - 1] + 1 ELSE d[i] = d[i - 1]
    BY <2>1 DEF Scoped
  <2> QED
    BY <2>1, <2>2, <2>3
<1>10. ASSUME NEW i \in 0..Len(B), NEW k \in 1..i, B[k].kind = "scope",
              \A j \in (k + 1)..i : B[j].kind # "scope"
       PROVE  T[c[i]] = B[k].target
  <2>1. k \in 1..Len(B) /\ \A j \in (k + 1)..i : j \in 1..Len(B)
    BY <1>1
  <2>2. F[k].kind = "scope" /\ \A j \in (k + 1)..i : F[j].kind # "scope"
    BY <1>1, <1>10, <2>1
  <2>3. i \in 0..Len(F)
    BY <1>2
  <2>4. S[d[i]] = F[k].target
    BY <2>2, <2>3 DEF Scoped
  <2> QED
    BY <1>1, <1>5, <2>1, <2>4
<1>11. ASSUME NEW i \in 0..Len(B), \A k \in 1..i : B[k].kind # "scope"
       PROVE  T[c[i]] = h
  <2>1. \A k \in 1..i : k \in 1..Len(B)
    BY <1>1
  <2>2. \A k \in 1..i : F[k].kind # "scope"
    BY <1>1, <1>11, <2>1
  <2>3. i \in 0..Len(F)
    BY <1>2
  <2>4. S[d[i]] = h
    BY <2>2, <2>3 DEF Scoped
  <2> QED
    BY <1>5, <2>4
<1> QED
  BY <1>6, <1>7, <1>8, <1>9, <1>10, <1>11 DEF Scoped

(* The depth at a new top.                                                 *)
LEMMA ScopedAbove ==
    ASSUME NEW F, NEW S, NEW h, NEW d, Scoped(F, S, h, d), NEW G, NEW x, IsPush(G, F, x),
           NEW T, Len(S) \in Nat, Len(T) \in Nat, \A i \in 1..Len(S) : T[i] = S[i],
           IF x.kind = "scope" /\ x.pushed THEN Len(T) = Len(S) + 1 ELSE Len(T) = Len(S),
           x.kind = "scope" => T[Len(T)] = x.target,
           NEW c, c = [i \in 0..Len(G) |-> IF i = Len(G) THEN Len(T) ELSE d[i]]
    PROVE  Scoped(G, T, h, c)
<1>1. /\ Len(F) \in Nat /\ Len(G) \in Nat /\ Len(G) = Len(F) + 1
      /\ \A i \in 1..Len(F) : i \in 1..Len(G) /\ G[i] = F[i]
      /\ G[Len(G)] = x
  BY DEF IsPush
<1>2. /\ Len(F) \in 0..Len(F) /\ Len(G) \in 0..Len(G) /\ Len(F) # Len(G) /\ Len(G) \in 1..Len(G)
      /\ \A i \in 0..Len(F) : i \in 0..Len(G) /\ i # Len(G)
      /\ \A i \in 0..Len(G) : i \in 0..Len(F) \/ i = Len(G)
  BY <1>1
<1>3. \A i \in 0..Len(F) : c[i] = d[i] /\ d[i] \in 1..Len(S)
  BY <1>2 DEF Scoped
<1>4. c[Len(G)] = Len(T) /\ d[Len(F)] = Len(S)
  BY <1>2 DEF Scoped
<1>5. Len(T) >= Len(S) /\ Len(S) >= 1
  BY <1>2, <1>3
<1>6. ASSUME NEW i \in 0..Len(F)
      PROVE  c[i] \in 1..Len(T) /\ c[i] <= Len(T) /\ T[c[i]] = S[d[i]]
  <2>1. c[i] = d[i] /\ d[i] \in 1..Len(S)
    BY <1>3
  <2>2. d[i] \in 1..Len(T) /\ d[i] <= Len(T)
    BY <1>5, <2>1
  <2>3. T[d[i]] = S[d[i]]
    BY <2>1
  <2> QED
    BY <2>1, <2>2, <2>3
<1>7. c \in [0..Len(G) -> 1..Len(T)]
  <2>1. Len(T) \in 1..Len(T)
    BY <1>5
  <2>2. ASSUME NEW i \in 0..Len(G) PROVE c[i] \in 1..Len(T)
    BY <1>2, <1>4, <1>6, <2>1
  <2> QED
    BY <2>2
<1>8. ASSUME NEW i \in 0..Len(G), NEW j \in 0..Len(G), i <= j PROVE c[i] <= c[j]
  <2>1. CASE j = Len(G)
    <3>1. i \in 0..Len(F) \/ i = Len(G)
      BY <1>2
    <3>2. c[i] <= Len(T)
      <4>1. CASE i \in 0..Len(F)
        BY <1>6, <4>1
      <4>2. CASE i = Len(G)
        BY <1>4, <4>2
      <4> QED
        BY <3>1, <4>1, <4>2
    <3> QED
      BY <1>4, <2>1, <3>2
  <2>2. CASE j # Len(G)
    <3>1. i \in 0..Len(F) /\ j \in 0..Len(F)
      BY <1>1, <1>8, <2>2
    <3> QED
      BY <1>3, <1>8, <3>1 DEF Scoped
  <2> QED
    BY <2>1, <2>2
<1>9. ASSUME NEW i \in 1..Len(G)
      PROVE  IF G[i].kind = "scope" /\ G[i].pushed THEN c[i] = c[i - 1] + 1 ELSE c[i] = c[i - 1]
  <2>1. CASE i = Len(G)
    <3>1. i - 1 = Len(F) /\ G[i] = x
      BY <1>1, <2>1
    <3>2. c[i] = Len(T) /\ c[i - 1] = Len(S)
      BY <1>2, <1>3, <1>4, <2>1, <3>1
    <3> QED
      BY <3>1, <3>2
  <2>2. CASE i # Len(G)
    <3>1. i \in 1..Len(F) /\ G[i] = F[i] /\ i \in 0..Len(F) /\ i - 1 \in 0..Len(F)
      BY <1>1, <2>2
    <3>2. c[i] = d[i] /\ c[i - 1] = d[i - 1]
      BY <1>3, <3>1
    <3>3. IF F[i].kind = "scope" /\ F[i].pushed THEN d[i] = d[i - 1] + 1 ELSE d[i] = d[i - 1]
      BY <3>1 DEF Scoped
    <3> QED
      BY <3>1, <3>2, <3>3
  <2> QED
    BY <2>1, <2>2
<1>10. ASSUME NEW i \in 0..Len(G), NEW k \in 1..i, G[k].kind = "scope",
              \A j \in (k + 1)..i : G[j].kind # "scope"
       PROVE  T[c[i]] = G[k].target
  <2>1. CASE i = Len(G) /\ k = i
    BY <1>1, <1>4, <1>10, <2>1
  <2>2. CASE i = Len(G) /\ k # i
    <3>1. i \in (k + 1)..i /\ k \in 1..Len(F) /\ \A j \in (k + 1)..Len(F) : j \in (k + 1)..i /\ j \in 1..Len(F)
      BY <1>1, <2>2
    <3>2. x.kind # "scope" /\ Len(T) = Len(S)
      BY <1>1, <1>10, <2>2, <3>1
    <3>3. F[k].kind = "scope" /\ \A j \in (k + 1)..Len(F) : F[j].kind # "scope"
      BY <1>1, <1>10, <3>1
    <3>4. S[d[Len(F)]] = F[k].target
      BY <1>2, <3>1, <3>3 DEF Scoped
    <3>5. T[Len(T)] = S[Len(S)]
      BY <1>5, <3>2
    <3> QED
      BY <1>1, <1>4, <2>2, <3>1, <3>4, <3>5
  <2>3. CASE i # Len(G)
    <3>1. i \in 0..Len(F) /\ k \in 1..Len(F) /\ \A j \in (k + 1)..i : j \in 1..Len(F)
      BY <1>1, <2>3
    <3>2. F[k].kind = "scope" /\ \A j \in (k + 1)..i : F[j].kind # "scope"
      BY <1>1, <1>10, <3>1
    <3>3. S[d[i]] = F[k].target
      BY <3>1, <3>2 DEF Scoped
    <3> QED
      BY <1>1, <1>6, <3>1, <3>3
  <2> QED
    BY <2>1, <2>2, <2>3
<1>11. ASSUME NEW i \in 0..Len(G), \A k \in 1..i : G[k].kind # "scope"
       PROVE  T[c[i]] = h
  <2>1. CASE i = Len(G)
    <3>1. \A k \in 1..Len(F) : k \in 1..i
      BY <1>1, <2>1
    <3>2. \A k \in 1..Len(F) : F[k].kind # "scope"
      BY <1>1, <1>11, <3>1
    <3>3. S[d[Len(F)]] = h
      BY <1>2, <3>2 DEF Scoped
    <3>4. x.kind # "scope" /\ Len(T) = Len(S)
      BY <1>1, <1>2, <1>11, <2>1
    <3>5. T[Len(T)] = S[Len(S)]
      BY <1>5, <3>4
    <3> QED
      BY <1>4, <2>1, <3>3, <3>5
  <2>2. CASE i # Len(G)
    <3>1. i \in 0..Len(F) /\ \A k \in 1..i : k \in 1..Len(F)
      BY <1>1, <2>2
    <3>2. \A k \in 1..i : F[k].kind # "scope"
      BY <1>1, <1>11, <3>1
    <3>3. S[d[i]] = h
      BY <3>1, <3>2 DEF Scoped
    <3> QED
      BY <1>6, <3>1, <3>3
  <2> QED
    BY <2>1, <2>2
<1> QED
  BY <1>4, <1>7, <1>8, <1>9, <1>10, <1>11 DEF Scoped

\* The stack of targets is as high below a frame as its body is, less what it pushed.
Under(S, T, x) ==
    /\ IsSeq(T) /\ T # <<>>
    /\ IF x.kind = "scope" /\ x.pushed THEN Len(S) = Len(T) + 1 ELSE Len(S) = Len(T)
    /\ \A i \in 1..Len(T) : T[i] = S[i]

(* What is held by a stack of frames with one more.                        *)
LEMMA HeldAbove ==
    ASSUME NEW F, NEW G, NEW x, IsPush(G, F, x)
    PROVE  /\ x.kind \in {"scope", "entering"} /\ x.acquired
              => Acquired(G) = Acquired(F) \cup {Len(G)} /\ Held(G) = Held(F) \cup {x.target}
           /\ ~(x.kind \in {"scope", "entering"} /\ x.acquired)
              => Acquired(G) = Acquired(F) /\ Held(G) = Held(F)
           /\ \A i \in Acquired(F) : i # Len(G) /\ i \in Acquired(G) /\ G[i] = F[i]
<1>1. /\ Len(F) \in Nat /\ Len(G) \in Nat /\ Len(G) = Len(F) + 1
      /\ \A i \in 1..Len(F) : i \in 1..Len(G) /\ G[i] = F[i]
      /\ G[Len(G)] = x
  BY DEF IsPush
<1>2. /\ Len(G) \in 1..Len(G) /\ Len(G) \notin 1..Len(F)
      /\ \A i \in 1..Len(G) : i \in 1..Len(F) \/ i = Len(G)
  BY <1>1
<1>3. \A i \in Acquired(F) : i # Len(G) /\ i \in Acquired(G) /\ G[i] = F[i]
  BY <1>1, <1>2 DEF Acquired
<1>4. \A i \in Acquired(G) : i \in Acquired(F) \/ (i = Len(G) /\ x.kind \in {"scope", "entering"} /\ x.acquired)
  BY <1>1, <1>2 DEF Acquired
<1>5. ASSUME x.kind \in {"scope", "entering"}, x.acquired
      PROVE  Acquired(G) = Acquired(F) \cup {Len(G)} /\ Held(G) = Held(F) \cup {x.target}
  <2>1. Len(G) \in Acquired(G)
    BY <1>1, <1>2, <1>5 DEF Acquired
  <2>2. Acquired(G) = Acquired(F) \cup {Len(G)}
    BY <1>3, <1>4, <2>1
  <2> QED
    BY <1>1, <1>3, <2>2 DEF Held
<1>6. ASSUME ~(x.kind \in {"scope", "entering"} /\ x.acquired)
      PROVE  Acquired(G) = Acquired(F) /\ Held(G) = Held(F)
  <2>1. Acquired(G) = Acquired(F)
    BY <1>3, <1>4, <1>6
  <2> QED
    BY <1>3, <2>1 DEF Held
<1> QED
  BY <1>3, <1>5, <1>6

(* A stack is its top pushed on the rest.                                  *)
LEMMA PoppedIsUnder ==
    ASSUME NEW F, IsSeq(F), F # <<>>
    PROVE  IsPush(F, Front(F), Last(F)) /\ IsPop(Front(F), F)
<1>1. IsPop(Front(F), F) /\ Last(F) = F[Len(F)]
  BY Popped
<1>2. /\ Len(F) \in Nat /\ Len(Front(F)) \in Nat /\ Len(F) = Len(Front(F)) + 1
      /\ \A i \in 1..Len(Front(F)) : i \in 1..Len(F) /\ F[i] = Front(F)[i]
  BY <1>1 DEF IsPop
<1> QED
  BY <1>1, <1>2 DEF IsPush

(* A frame on top of a run at work.                                        *)
LEMMA GoodAbove ==
    ASSUME NEW F, NEW T, NEW h, Good(F, T, h), NEW G, NEW x, IsPush(G, F, x),
           NEW S, IsSeq(S), S # <<>>, Under(S, T, x),
           FrameOk(G, Len(G)),
           x.kind = "scope" => S[Len(S)] = x.target,
           x.kind = "scope" /\ x.acquired => x.target \notin ToSet(T)
    PROVE  Good(G, S, h)
<1>1. /\ Len(F) \in Nat /\ Len(G) \in Nat /\ Len(G) = Len(F) + 1
      /\ \A i \in 1..Len(F) : i \in 1..Len(G) /\ G[i] = F[i]
      /\ G[Len(G)] = x /\ IsSeq(G)
  BY DEF IsPush
<1>2. Len(S) \in Nat /\ Len(T) \in Nat
  BY DEF IsSeq, Under
<1>3. PICK d : Scoped(F, T, h, d)
  BY DEF Good
<1>4. \E e : Scoped(G, S, h, e)
  <2>1. IF x.kind = "scope" /\ x.pushed THEN Len(S) = Len(T) + 1 ELSE Len(S) = Len(T)
    BY DEF Under
  <2>2. \A i \in 1..Len(T) : S[i] = T[i]
    BY DEF Under
  <2>3. PICK e : e = [i \in 0..Len(G) |-> IF i = Len(G) THEN Len(S) ELSE d[i]]
    OBVIOUS
  <2>4. Scoped(G, S, h, e)
    BY <1>2, <1>3, <2>1, <2>2, <2>3, ScopedAbove
  <2> QED
    BY <2>4
<1>5. ASSUME NEW i \in 1..Len(G) PROVE FrameOk(G, i)
  <2>1. CASE i \in 1..Len(F)
    <3>1. FrameOk(F, i) /\ G[i] = F[i]
      BY <1>1, <2>1 DEF Good
    <3>2. i > 1 => i - 1 \in 1..Len(F)
      BY <1>1, <2>1
    <3>3. i > 1 => G[i - 1] = F[i - 1]
      BY <1>1, <3>2
    <3> QED
      BY <3>1, <3>3 DEF FrameOk, Handles
  <2>2. CASE i = Len(G)
    BY <2>2
  <2> QED
    BY <1>1, <2>1, <2>2
<1>6. /\ \A i \in Acquired(F) : F[i].target # h
      /\ \A i \in Acquired(F) : \A j \in Acquired(F) : F[i].target = F[j].target => i = j
  BY DEF Good
<1>7. \A i \in Acquired(F) : F[i].target \in ToSet(T)
  BY HeldIsStacked DEF Held
<1>8. h \in ToSet(T)
  BY HeldIsStacked
<1>9. \A i \in Acquired(G) : \/ i \in Acquired(F) /\ G[i] = F[i]
                             \/ i = Len(G) /\ x.kind = "scope" /\ x.acquired
  <2>1. x.kind # "entering"
    BY <1>1 DEF FrameOk, Plain, IsScope, Handles
  <2> QED
    BY <2>1, HeldAbove
<1>10. ASSUME NEW i \in Acquired(G)
       PROVE  G[i].target # h /\ \A j \in Acquired(G) : G[i].target = G[j].target => i = j
  BY <1>1, <1>6, <1>7, <1>8, <1>9
<1> QED
  BY <1>1, <1>4, <1>5, <1>10 DEF Good

(* What is below a frame of a run at work.                                 *)
LEMMA GoodBelow ==
    ASSUME NEW F, NEW S, NEW h, Good(F, S, h), F # <<>>,
           NEW T, IsSeq(T), Len(T) \in Nat, Under(S, T, Last(F))
    PROVE  Good(Front(F), T, h)
<1>1. PICK B : B = Front(F)
  OBVIOUS
<1>2. IsPush(F, B, Last(F)) /\ IsPop(B, F)
  BY <1>1, PoppedIsUnder DEF Good
<1>3. /\ Len(F) \in Nat /\ Len(F) > 0 /\ Len(B) \in Nat /\ Len(B) = Len(F) - 1
      /\ \A i \in 1..Len(B) : i \in 1..Len(F) /\ B[i] = F[i]
      /\ IsSeq(B)
  BY <1>2 DEF IsPop
<1>4. PICK d : Scoped(F, S, h, d)
  BY DEF Good
<1>5. Len(S) \in Nat
  BY DEF Good, IsSeq
<1>6. Last(F) = F[Len(F)]
  BY Popped DEF Good
<1>7. Len(T) = d[Len(B)]
  <2>1. IF F[Len(F)].kind = "scope" /\ F[Len(F)].pushed THEN d[Len(F)] = d[Len(F) - 1] + 1
        ELSE d[Len(F)] = d[Len(F) - 1]
    <3>1. Len(F) \in 1..Len(F)
      BY <1>3
    <3> QED
      BY <1>4, <3>1 DEF Scoped
  <2>2. d[Len(F)] = Len(S) /\ d[Len(B)] \in 1..Len(S)
    <3>1. Len(B) \in 0..Len(F)
      BY <1>3
    <3>2. d \in [0..Len(F) -> 1..Len(S)] /\ d[Len(F)] = Len(S)
      BY <1>4 DEF Scoped
    <3> QED
      BY <3>1, <3>2
  <2>3. IF F[Len(F)].kind = "scope" /\ F[Len(F)].pushed THEN Len(S) = Len(T) + 1 ELSE Len(S) = Len(T)
    BY <1>6 DEF Under
  <2>4. d[Len(B)] \in Nat
    BY <1>5, <2>2
  <2> QED
    BY <1>3, <1>5, <2>1, <2>2, <2>3, <2>4
<1>8. \E c : Scoped(B, T, h, c)
  <2>1. \A i \in 1..Len(T) : T[i] = S[i]
    BY DEF Under
  <2>2. PICK c : c = [i \in 0..Len(B) |-> d[i]]
    OBVIOUS
  <2>3. Scoped(B, T, h, c)
    BY <1>2, <1>4, <1>5, <1>7, <2>1, <2>2, ScopedBelow
  <2> QED
    BY <2>3
<1>9. ASSUME NEW i \in 1..Len(B) PROVE FrameOk(B, i)
  <2>1. FrameOk(F, i) /\ B[i] = F[i]
    BY <1>3 DEF Good
  <2>2. i > 1 => i - 1 \in 1..Len(B)
    BY <1>3
  <2>3. i > 1 => B[i - 1] = F[i - 1]
    BY <1>3, <2>2
  <2> QED
    BY <2>1, <2>3 DEF FrameOk, Handles
<1>10. \A i \in Acquired(B) : i \in Acquired(F) /\ F[i] = B[i]
  BY <1>2, HeldAbove
<1>11. \A i \in Acquired(B) : B[i].target # h /\ \A j \in Acquired(B) : B[i].target = B[j].target => i = j
  BY <1>10 DEF Good
<1> QED
  BY <1>1, <1>3, <1>8, <1>9, <1>11 DEF Good, Under

-----------------------------------------------------------------------------
(* StepsTo that enter or leave no scope: what is held, and the stack of       *)
(* targets, stay, and a cancelled run puts no effect on top.                *)
Calm(F, G) == Len(G) > Len(F) => Last(G).kind \notin Effects
Fine(F, G, S, h, c) == Good(G, S, h) /\ Held(G) = Held(F) /\ (c => Calm(F, G))

(* The two parts of a stack that has just been given a top.                *)
LEMMA PushedTop ==
    ASSUME NEW s, IsSeq(s), NEW x
    PROVE  Last(Append(s, x)) = x /\ Front(Append(s, x)) = s
<1>1. PICK p : p = Append(s, x)
  OBVIOUS
<1>2. IsPush(p, s, x)
  BY <1>1, Pushed
<1>3. IsPop(Front(p), p) /\ Last(p) = p[Len(p)]
  BY <1>2, Popped DEF IsPush
<1>4. PICK q : q = Front(p)
  OBVIOUS
<1>5. /\ Len(s) \in Nat /\ Len(p) = Len(s) + 1 /\ p[Len(p)] = x
      /\ \A i \in 1..Len(s) : p[i] = s[i]
  BY <1>2 DEF IsPush
<1>6. /\ IsSeq(q) /\ Len(q) \in Nat /\ Len(q) = Len(p) - 1
      /\ \A i \in 1..Len(q) : q[i] = p[i]
  BY <1>3, <1>4 DEF IsPop
<1>7. Len(q) = Len(s) /\ \A i \in 1..Len(q) : q[i] = s[i]
  BY <1>5, <1>6
<1>8. PICK X : s \in Seq(X)
  BY DEF IsSeq
<1>9. PICK Y : q \in Seq(Y)
  BY <1>6 DEF IsSeq
<1>10. s \in Seq(X \cup Y) /\ q \in Seq(X \cup Y)
  BY <1>8, <1>9
<1>11. q = s
  BY <1>7, <1>10, SeqEqual
<1> QED
  BY <1>1, <1>3, <1>4, <1>5, <1>11

(* The top frame is gone.                                                  *)
LEMMA FineBelow ==
    ASSUME NEW F, NEW S, NEW h, NEW c, Good(F, S, h), F # <<>>, Last(F).kind # "scope",
           ~(Last(F).kind = "entering" /\ Last(F).acquired)
    PROVE  Fine(F, Front(F), S, h, c)
<1>1. IsSeq(S) /\ S # <<>> /\ Len(S) \in Nat
  BY DEF Good, IsSeq
<1>2. Under(S, S, Last(F))
  BY <1>1 DEF Under
<1>3. Good(Front(F), S, h)
  BY <1>1, <1>2, GoodBelow
<1>4. IsPush(F, Front(F), Last(F)) /\ IsPop(Front(F), F)
  BY PoppedIsUnder DEF Good
<1>5. Held(Front(F)) = Held(F)
  BY <1>4, HeldAbove
<1>6. ~(Len(Front(F)) > Len(F))
  BY <1>4 DEF IsPop
<1> QED
  BY <1>3, <1>5, <1>6 DEF Fine, Calm

(* A frame that is no scope is on top.                                     *)
LEMMA FineAbove ==
    ASSUME NEW F, NEW B, NEW S, NEW h, NEW c, Good(B, S, h), Held(B) = Held(F),
           NEW x, Plain(x) \/ (x.kind = "handler" /\ B # <<>> /\ Last(B).kind = "dispatch"),
           c => (x.kind \notin Effects \/ ~(Len(Append(B, x)) > Len(F)))
    PROVE  Fine(F, Append(B, x), S, h, c)
<1>1. PICK G : G = Append(B, x)
  OBVIOUS
<1>2. IsPush(G, B, x) /\ IsSeq(B)
  BY <1>1, Pushed DEF Good
<1>3. IsSeq(S) /\ S # <<>> /\ Len(S) \in Nat
  BY DEF Good, IsSeq
<1>4. Under(S, S, x)
  BY <1>3 DEF Under, Plain
<1>5. FrameOk(G, Len(G))
  <2>1. Len(B) \in Nat /\ Len(G) = Len(B) + 1 /\ G[Len(G)] = x /\ \A i \in 1..Len(B) : G[i] = B[i]
    BY <1>2 DEF IsPush
  <2>2. CASE Plain(x)
    BY <2>1, <2>2 DEF FrameOk
  <2>3. CASE x.kind = "handler" /\ B # <<>> /\ Last(B).kind = "dispatch"
    <3>1. Len(B) > 0 /\ Last(B) = B[Len(B)]
      BY <1>2, <2>3, Popped
    <3>2. Len(B) \in 1..Len(B) /\ Len(G) > 1 /\ Len(G) - 1 = Len(B)
      BY <2>1, <3>1
    <3> QED
      BY <2>1, <2>3, <3>1, <3>2 DEF FrameOk, Handles
  <2> QED
    BY <2>2, <2>3
<1>6. x.kind # "scope" /\ x.kind # "entering"
  BY DEF Plain
<1>7. Good(G, S, h)
  BY <1>2, <1>3, <1>4, <1>5, <1>6, GoodAbove
<1>8. Held(G) = Held(F)
  BY <1>2, <1>6, HeldAbove
<1>9. Last(G) = x
  BY <1>1, <1>2, PushedTop
<1> QED
  BY <1>1, <1>7, <1>8, <1>9 DEF Fine, Calm

(* The top frame is changed.                                               *)
LEMMA FineTop ==
    ASSUME NEW F, NEW S, NEW h, NEW c, Good(F, S, h), F # <<>>, Last(F).kind \notin {"scope", "entering"},
           NEW x, Plain(x)
    PROVE  Fine(F, Append(Front(F), x), S, h, c)
<1>1. PICK B : B = Front(F)
  OBVIOUS
<1>2. Fine(F, B, S, h, c)
  BY <1>1, FineBelow
<1>3. IsPop(B, F) /\ IsPush(Append(B, x), B, x)
  BY <1>1, PoppedIsUnder, Pushed DEF Good, IsPop
<1>4. ~(Len(Append(B, x)) > Len(F))
  BY <1>3 DEF IsPop, IsPush
<1> QED
  BY <1>1, <1>2, <1>4, FineAbove DEF Fine

(* A frame is on top of what a step has already done.                      *)
LEMMA FineOnTop ==
    ASSUME NEW F, NEW G, NEW S, NEW h, NEW c, Fine(F, G, S, h, c), NEW x, Plain(x),
           c => x.kind \notin Effects
    PROVE  Fine(F, Append(G, x), S, h, c)
BY FineAbove DEF Fine

(* Two frames are.                                                         *)
LEMMA FineTwoOnTop ==
    ASSUME NEW F, NEW G, NEW S, NEW h, NEW c, Fine(F, G, S, h, c), NEW x, NEW y,
           Plain(x) \/ (x.kind = "handler" /\ G # <<>> /\ Last(G).kind = "dispatch"), Plain(y),
           x.kind \notin Effects, y.kind \notin Effects
    PROVE  Fine(F, G \o <<x, y>>, S, h, c)
<1>1. Fine(F, Append(G, x), S, h, c)
  BY FineAbove DEF Fine
<1>2. Fine(F, Append(Append(G, x), y), S, h, c)
  BY <1>1, FineOnTop
<1>3. IsSeq(G)
  BY DEF Fine, Good
<1>4. G \o <<x, y>> = Append(Append(G, x), y)
  <2>1. Twice(G, x, y)
    BY <1>3, PushedTwice, Zenon
  <2> QED
    BY <2>1 DEF Twice
<1> QED
  BY <1>2, <1>4, Zenon

(* The top frame is changed and one put on it.                             *)
LEMMA FineTopAndOne ==
    ASSUME NEW F, NEW S, NEW h, NEW c, Good(F, S, h), F # <<>>, Last(F).kind \notin {"scope", "entering"},
           NEW x, NEW y, Plain(x), Plain(y), y.kind \notin Effects
    PROVE  Fine(F, Front(F) \o <<x, y>>, S, h, c)
<1>1. Fine(F, Append(Front(F), x), S, h, c)
  BY FineTop
<1>2. Fine(F, Append(Append(Front(F), x), y), S, h, c)
  BY <1>1, FineOnTop
<1>3. IsSeq(Front(F))
  BY PoppedIsUnder DEF Good, IsPop
<1>4. Front(F) \o <<x, y>> = Append(Append(Front(F), x), y)
  <2>1. Twice(Front(F), x, y)
    BY <1>3, PushedTwice, Zenon
  <2> QED
    BY <2>1 DEF Twice
<1> QED
  BY <1>2, <1>4, Zenon

-----------------------------------------------------------------------------
(* What a step does to its run.                                            *)
RunFields ==
    {"at", "status", "cancel", "frames", "signal", "stack", "listeners", "inbox", "dispatching"}

\* The frames and the stack of targets of a run that is not started, opens its default
\* target, is at work, or enters a scope.
Opening == <<[kind |-> "opening"]>>
Idle(x) == x.stack = <<>> /\ (x.frames = <<>> \/ x.frames = Opening)
Asks(f, S) ==
    /\ f.kind = "entering" /\ "kind" \in DOMAIN f /\ {"acquired", "asked"} \subseteq DOMAIN f
    /\ f.acquired \in BOOLEAN
    /\ f.acquired => f.asked /\ f.target \in Targets \ ToSet(S)
EntersScope(x, h) == x.frames # <<>> /\ Asks(Last(x.frames), x.stack) /\ Good(Front(x.frames), x.stack, h)
Shape(x, h) ==
    /\ DOMAIN x = RunFields
    /\ IsSeq(x.frames)
    /\ x.at \in {"absent", "running", "ended"}
    /\ x.at # "running" => x.frames = <<>> /\ x.stack = <<>>
    /\ Idle(x) \/ Good(x.frames, x.stack, h) \/ EntersScope(x, h)

\* A step of the run r: its frames and its stack after it.
Only(r, G, T) ==
    /\ DOMAIN run' = Runs
    /\ \A q \in Runs : q # r => run'[q] = run[q]
    /\ DOMAIN run'[r] = RunFields
    /\ run'[r].at = run[r].at
    /\ run'[r].frames = G
    /\ run'[r].stack = T
    /\ run[r].cancel => run'[r].listeners = run[r].listeners

RunsExist == DOMAIN run = Runs /\ \A r \in Runs : DOMAIN run[r] = RunFields

(* A run that goes on.                                                     *)
LEMMA Continued ==
    ASSUME RunsExist, NEW r \in Runs, NEW G, NEW s, Continues(r, G, s)
    PROVE  Only(r, G, run[r].stack)
<1>1. DOMAIN run = Runs /\ DOMAIN run[r] = RunFields
  BY DEF RunsExist
<1>2. PICK y : y = [run[r] EXCEPT !.frames = G]
  OBVIOUS
<1>3. PICK z : z = [y EXCEPT !.signal = s]
  OBVIOUS
<1>4. run' = [run EXCEPT ![r] = z]
  BY <1>1, <1>2, <1>3 DEF Continues
<1>5. DOMAIN y = RunFields /\ y.frames = G /\ y.stack = run[r].stack /\ y.at = run[r].at
      /\ y.listeners = run[r].listeners
  BY <1>1, <1>2 DEF RunFields
<1>6. DOMAIN z = RunFields /\ z.frames = G /\ z.stack = run[r].stack /\ z.at = run[r].at
      /\ z.listeners = run[r].listeners
  BY <1>3, <1>5 DEF RunFields
<1>7. DOMAIN run' = Runs /\ run'[r] = z /\ \A q \in Runs : q # r => run'[q] = run[q]
  BY <1>1, <1>4
<1> QED
  BY <1>6, <1>7 DEF Only

(* A run that is stopped.                                                  *)
LEMMA Stopped ==
    ASSUME RunsExist, NEW r \in Runs, NEW G, NEW s, Stops(r, G, s)
    PROVE  Only(r, G, run[r].stack)
<1>1. DOMAIN run = Runs /\ DOMAIN run[r] = RunFields
  BY DEF RunsExist
<1>2. PICK y : y = [run[r] EXCEPT !.frames = G]
  OBVIOUS
<1>3. PICK z : z = [y EXCEPT !.signal = s]
  OBVIOUS
<1>4. PICK w : w = [z EXCEPT !.status = "cancelled"]
  OBVIOUS
<1>5. run' = [run EXCEPT ![r] = w]
  BY <1>1, <1>2, <1>3, <1>4 DEF Stops
<1>6. DOMAIN y = RunFields /\ y.frames = G /\ y.stack = run[r].stack /\ y.at = run[r].at
      /\ y.listeners = run[r].listeners
  BY <1>1, <1>2 DEF RunFields
<1>7. DOMAIN z = RunFields /\ z.frames = G /\ z.stack = run[r].stack /\ z.at = run[r].at
      /\ z.listeners = run[r].listeners
  BY <1>3, <1>6 DEF RunFields
<1>8. DOMAIN w = RunFields /\ w.frames = G /\ w.stack = run[r].stack /\ w.at = run[r].at
      /\ w.listeners = run[r].listeners
  BY <1>4, <1>7 DEF RunFields
<1>9. DOMAIN run' = Runs /\ run'[r] = w /\ \A q \in Runs : q # r => run'[q] = run[q]
  BY <1>1, <1>5
<1> QED
  BY <1>8, <1>9 DEF Only

\* A step that enters or leaves no scope.
Orderly(r) ==
    \E G : Only(r, G, run[r].stack) /\ Fine(run[r].frames, G, run[r].stack, HomeOf[r], run[r].cancel)

(* A run at work, with no scope on top.                                    *)
Executing(r) ==
    /\ Good(run[r].frames, run[r].stack, HomeOf[r]) /\ run[r].frames # <<>>
    /\ "kind" \in DOMAIN Top(r) /\ FrameOk(run[r].frames, Len(run[r].frames))
    /\ Top(r).kind \notin {"scope", "entering", "opening"}

RunsInShape == DOMAIN run = Runs /\ \A r \in Runs : Shape(run[r], HomeOf[r])

(* The runs are there.                                                     *)
LEMMA RunsAreThere == ASSUME RunsInShape PROVE RunsExist
BY DEF RunsInShape, RunsExist, Shape

(* The frames of a run that opens its default target.                      *)
LEMMA OpeningTop ==
    /\ IsSeq(Opening) /\ Opening # <<>> /\ Last(Opening).kind = "opening"
    /\ IsPush(Opening, <<>>, [kind |-> "opening"]) /\ IsSeq(<<>>)
<1>1. PICK x : x = [kind |-> "opening"]
  OBVIOUS
<1>2. x.kind = "opening" /\ <<x>> \in Seq({x}) /\ <<>> \in Seq({x})
  BY <1>1
<1>3. Len(<<x>>) = 1 /\ <<x>>[1] = x /\ <<x>> # <<>> /\ Len(<<>>) = 0 /\ 1..0 = {}
  OBVIOUS
<1>4. Last(<<x>>) = x
  BY <1>3 DEF Last
<1>5. Opening = <<x>>
  BY <1>1 DEF Opening
<1>6. IsSeq(<<x>>) /\ IsSeq(<<>>)
  BY <1>2 DEF IsSeq
<1>7. IsPush(<<x>>, <<>>, x)
  BY <1>3, <1>6 DEF IsPush
<1> QED
  BY <1>1, <1>2, <1>3, <1>4, <1>5, <1>6, <1>7

(* Which runs are at work.                                                 *)
LEMMA AtWork ==
    ASSUME RunsInShape, NEW r \in Runs, NEW kind, kind \notin {"scope", "entering", "opening", "handler"}, In(r, kind)
    PROVE  Executing(r) /\ Plain(Top(r)) /\ Top(r).kind = kind
<1>1. run[r].frames # <<>> /\ Top(r).kind = kind
  BY DEF In
<1>2. Shape(run[r], HomeOf[r])
  BY DEF RunsInShape
<1>3. Good(run[r].frames, run[r].stack, HomeOf[r])
  BY <1>1, <1>2, OpeningTop DEF Shape, Idle, EntersScope, Asks, Top
<1>4. Len(run[r].frames) \in 1..Len(run[r].frames) /\ Top(r) = run[r].frames[Len(run[r].frames)]
  BY <1>1, <1>3, Popped DEF Good, Top
<1>5. FrameOk(run[r].frames, Len(run[r].frames))
  BY <1>3, <1>4 DEF Good
<1>6. Plain(Top(r))
  BY <1>1, <1>4, <1>5 DEF FrameOk, IsScope, Handles
<1> QED
  BY <1>1, <1>3, <1>5, <1>6 DEF Executing, Plain

-----------------------------------------------------------------------------
(* The steps that enter or leave no scope.                                  *)
StepsTo(r, G, s) == Continues(r, G, s) \/ Stops(r, G, s)

(* A step is orderly when its frames are.                                  *)
LEMMA OrderlyStep ==
    ASSUME RunsInShape, NEW r \in Runs, NEW G, NEW s, StepsTo(r, G, s),
           Fine(run[r].frames, G, run[r].stack, HomeOf[r], run[r].cancel)
    PROVE  Orderly(r)
<1>1. Only(r, G, run[r].stack)
  BY RunsAreThere, Continued, Stopped DEF StepsTo
<1> QED
  BY <1>1 DEF Orderly

(* The top frame is left.                                                  *)
LEMMA OrderlyBelow ==
    ASSUME RunsInShape, NEW r \in Runs, Executing(r), NEW s, StepsTo(r, Below(r), s) PROVE Orderly(r)
<1>1. Fine(run[r].frames, Front(run[r].frames), run[r].stack, HomeOf[r], run[r].cancel)
  BY FineBelow DEF Executing, Top
<1> QED
  BY <1>1, OrderlyStep DEF Below

(* The top frame is changed.                                               *)
LEMMA OrderlyTop ==
    ASSUME RunsInShape, NEW r \in Runs, Executing(r), NEW x, Plain(x), NEW s, StepsTo(r, Append(Below(r), x), s)
    PROVE  Orderly(r)
<1>1. Fine(run[r].frames, Append(Front(run[r].frames), x), run[r].stack, HomeOf[r], run[r].cancel)
  BY FineTop DEF Executing, Top
<1> QED
  BY <1>1, OrderlyStep DEF Below

(* The top frame is changed, and another is put on it.                     *)
LEMMA OrderlyTopAndOne ==
    ASSUME RunsInShape, NEW r \in Runs, Executing(r), NEW x, Plain(x), NEW y, Plain(y), y.kind \notin Effects,
           NEW s, StepsTo(r, Below(r) \o <<x, y>>, s)
    PROVE  Orderly(r)
<1>1. Fine(run[r].frames, Front(run[r].frames) \o <<x, y>>, run[r].stack, HomeOf[r], run[r].cancel)
  BY FineTopAndOne DEF Executing, Top
<1> QED
  BY <1>1, OrderlyStep DEF Below

(* A frame of a block stays plain, and its block is not cancelled when it   *)
(* begins an instruction.                                                   *)
LEMMA Advances ==
    ASSUME RunsInShape, NEW r \in Runs, MayBegin(r)
    PROVE  /\ Executing(r) /\ ~run[r].cancel
           /\ Fine(run[r].frames, Advanced(r), run[r].stack, HomeOf[r], run[r].cancel)
<1>1. Executing(r) /\ Plain(Top(r))
  BY AtWork DEF MayBegin
<1>2. PICK x : x = [Top(r) EXCEPT !.at = @ + 1, !.step = "check"]
  OBVIOUS
<1>3. Plain(x)
  BY <1>1, <1>2 DEF Plain
<1>4. Fine(run[r].frames, Append(Front(run[r].frames), x), run[r].stack, HomeOf[r], run[r].cancel)
  BY <1>1, <1>3, FineTop DEF Executing, Top
<1>5. Advanced(r) = Append(Front(run[r].frames), x)
  BY <1>2 DEF Advanced, Below
<1> QED
  BY <1>1, <1>4, <1>5 DEF MayBegin, CancelledMeanwhile

(* An instruction that is done, or has failed.                             *)
LEMMA OrderlyAdvance ==
    ASSUME RunsInShape, NEW r \in Runs, MayBegin(r), NEW s, StepsTo(r, Advanced(r), s) PROVE Orderly(r)
BY Advances, OrderlyStep

(* An instruction that takes one frame.                                    *)
LEMMA OrderlyOne ==
    ASSUME RunsInShape, NEW r \in Runs, MayBegin(r), NEW x, Plain(x), NEW s, StepsTo(r, Append(Advanced(r), x), s)
    PROVE  Orderly(r)
<1>1. Fine(run[r].frames, Append(Advanced(r), x), run[r].stack, HomeOf[r], run[r].cancel)
  BY Advances, FineOnTop
<1> QED
  BY <1>1, OrderlyStep

(* An instruction that takes two frames.                                   *)
LEMMA OrderlyTwo ==
    ASSUME RunsInShape, NEW r \in Runs, MayBegin(r), NEW x, Plain(x), NEW y, Plain(y),
           x.kind \notin Effects, y.kind \notin Effects, NEW s, StepsTo(r, Advanced(r) \o <<x, y>>, s)
    PROVE  Orderly(r)
<1>1. Fine(run[r].frames, Advanced(r) \o <<x, y>>, run[r].stack, HomeOf[r], run[r].cancel)
  BY Advances, FineTwoOnTop
<1> QED
  BY <1>1, OrderlyStep

(* The frames that the code puts on its stack.                             *)
LEMMA PlainFrames ==
    /\ Plain(Call) /\ Call.kind \notin Effects
    /\ \A b : Plain(Block(b)) /\ Block(b).kind \notin Effects
    /\ \A w : Plain([kind |-> "act", waits |-> w])
    /\ \A a, b, c : LET f == [kind |-> "loop", loop |-> a, body |-> b, left |-> c] IN Plain(f)
    /\ \A b, a, s, n, p :
          LET f == [kind |-> "try", block |-> b, at |-> a, step |-> s, attempts |-> n, pending |-> p]
          IN Plain(f) /\ f.kind \notin Effects
    /\ \A b, n : LET f == [kind |-> "retry", body |-> b, left |-> n] IN Plain(f) /\ f.kind \notin Effects
    /\ \A l, u, b : LET f == [kind |-> "dispatch", left |-> l, upto |-> u, looked |-> b]
                    IN Plain(f) /\ f.kind \notin Effects
BY DEF Plain, Call, Block, Effects

(* A checkpoint.                                                           *)
LEMMA FineCheckpoint ==
    ASSUME NEW r, NEW F, NEW G, NEW S, NEW h, NEW c, Fine(F, G, S, h, c)
    PROVE  Fine(F, Checkpointed(r, G), S, h, c)
<1>1. CASE Checkpointed(r, G) = G
  BY <1>1
<1>2. CASE Checkpointed(r, G) # G
  <2>1. PICK f : f = [kind |-> "dispatch", left |-> run[r].listeners, upto |-> run[r].inbox, looked |-> FALSE]
    OBVIOUS
  <2>2. Plain(f) /\ f.kind \notin Effects
    BY <2>1, PlainFrames
  <2>3. Checkpointed(r, G) = Append(G, f)
    BY <1>2, <2>1 DEF Checkpointed
  <2> QED
    BY <2>2, <2>3, FineOnTop
<1> QED
  BY <1>1, <1>2

(* Blocks.                                                                 *)
LEMMA OrderlyBlock ==
    ASSUME RunsInShape, NEW r \in Runs,
           \/ look_around(r) \/ stopped_after_checkpoint(r) \/ block_ends(r) \/ block_is_left(r)
           \/ evaluation_fails(r) \/ begin_action(r) \/ begin_if(r) \/ raise(r)
    PROVE  Orderly(r)
<1>1. CASE look_around(r)
  <2>1. Executing(r) /\ Plain(Top(r))
    BY <1>1, AtWork DEF look_around
  <2>2. CASE run[r].cancel
    BY <1>1, <2>1, <2>2, OrderlyBelow DEF look_around, StepsTo
  <2>3. CASE ~run[r].cancel
    <3>1. PICK x : x = [Top(r) EXCEPT !.step = "ready"]
      OBVIOUS
    <3>2. Plain(x)
      BY <2>1, <3>1 DEF Plain
    <3>3. Continues(r, Checkpointed(r, Append(Below(r), x)), "none")
      BY <1>1, <2>3, <3>1 DEF look_around
    <3>4. Fine(run[r].frames, Append(Below(r), x), run[r].stack, HomeOf[r], run[r].cancel)
      BY <2>1, <3>2, FineTop DEF Executing, Top, Below
    <3>5. Fine(run[r].frames, Checkpointed(r, Append(Below(r), x)), run[r].stack, HomeOf[r], run[r].cancel)
      BY <3>4, FineCheckpoint
    <3> QED
      BY <3>3, <3>5, OrderlyStep DEF StepsTo
  <2> QED
    BY <2>2, <2>3
<1>2. CASE stopped_after_checkpoint(r) \/ block_ends(r) \/ block_is_left(r)
  <2>1. Executing(r)
    BY <1>2, AtWork DEF stopped_after_checkpoint, block_ends, block_is_left
  <2>2. PICK s : StepsTo(r, Below(r), s)
    BY <1>2 DEF stopped_after_checkpoint, block_ends, block_is_left, StepsTo
  <2> QED
    BY <2>1, <2>2, OrderlyBelow
<1>3. CASE evaluation_fails(r) \/ raise(r)
  <2>1. MayBegin(r)
    BY <1>3 DEF evaluation_fails, raise, Begins
  <2>2. PICK s : StepsTo(r, Advanced(r), s)
    BY <1>3 DEF evaluation_fails, raise, StepsTo
  <2> QED
    BY <2>1, <2>2, OrderlyAdvance
<1>4. CASE begin_action(r)
  <2>1. PICK x : x = [kind |-> "act", waits |-> Instruction(r).waits]
    OBVIOUS
  <2>2. Plain(x)
    BY <2>1, PlainFrames
  <2>3. MayBegin(r) /\ StepsTo(r, Append(Advanced(r), x), "none")
    BY <1>4, <2>1 DEF begin_action, Begins, StepsTo
  <2> QED
    BY <2>2, <2>3, OrderlyOne
<1>5. CASE begin_if(r)
  <2>1. PICK b : Continues(r, Append(Advanced(r), Block(b)), "none")
    BY <1>5 DEF begin_if
  <2>2. MayBegin(r) /\ StepsTo(r, Append(Advanced(r), Block(b)), "none")
    BY <1>5, <2>1 DEF begin_if, Begins, StepsTo
  <2>3. Plain(Block(b))
    BY PlainFrames
  <2> QED
    BY <2>2, <2>3, OrderlyOne
<1> QED
  BY <1>1, <1>2, <1>3, <1>4, <1>5

(* Actions, waits and the checkpoints in them.                             *)
LEMMA OrderlyAction ==
    ASSUME RunsInShape, NEW r \in Runs, action_ends(r) \/ wait_ends(r) \/ checkpoint_in_wait(r) \/ action_is_left(r)
    PROVE  Orderly(r)
<1>1. CASE action_ends(r) \/ wait_ends(r) \/ action_is_left(r)
  <2>1. Executing(r)
    BY <1>1, AtWork DEF action_ends, wait_ends, action_is_left
  <2>2. PICK s : StepsTo(r, Below(r), s)
    BY <1>1 DEF action_ends, wait_ends, action_is_left, StepsTo
  <2> QED
    BY <2>1, <2>2, OrderlyBelow
<1>2. CASE checkpoint_in_wait(r)
  <2>1. Executing(r)
    BY <1>2, AtWork DEF checkpoint_in_wait
  <2>2. Len(run[r].frames) \in Nat
    BY <2>1 DEF Executing, Good, IsSeq
  <2>3. Fine(run[r].frames, run[r].frames, run[r].stack, HomeOf[r], run[r].cancel)
    BY <2>1, <2>2 DEF Executing, Fine, Calm
  <2>4. Fine(run[r].frames, Checkpointed(r, run[r].frames), run[r].stack, HomeOf[r], run[r].cancel)
    BY <2>3, FineCheckpoint
  <2>5. StepsTo(r, Checkpointed(r, run[r].frames), "none")
    BY <1>2 DEF checkpoint_in_wait, StepsTo
  <2> QED
    BY <2>4, <2>5, OrderlyStep
<1> QED
  BY <1>1, <1>2

(* Calls.                                                                  *)
LEMMA OrderlyCall ==
    ASSUME RunsInShape, NEW r \in Runs, begin_call(r) \/ call_ends(r) PROVE Orderly(r)
<1>1. CASE begin_call(r)
  <2>1. PICK b : b = Instruction(r).function
    OBVIOUS
  <2>2. MayBegin(r)
    BY <1>1 DEF begin_call, Begins
  <2>3. CASE Depth(r) > MaxDepth
    <3>1. StepsTo(r, Advanced(r), "permanent")
      BY <1>1, <2>3 DEF begin_call, StepsTo
    <3> QED
      BY <2>2, <3>1, OrderlyAdvance
  <2>4. CASE ~(Depth(r) > MaxDepth)
    <3>1. StepsTo(r, Advanced(r) \o <<Call, Block(b)>>, "none")
      BY <1>1, <2>1, <2>4 DEF begin_call, StepsTo
    <3>2. Plain(Call) /\ Plain(Block(b)) /\ Call.kind \notin Effects /\ Block(b).kind \notin Effects
      BY PlainFrames
    <3> QED
      BY <2>2, <3>1, <3>2, OrderlyTwo
  <2> QED
    BY <2>3, <2>4
<1>2. CASE call_ends(r)
  <2>1. Executing(r)
    BY <1>2, AtWork DEF call_ends
  <2>2. PICK s : StepsTo(r, Below(r), s)
    BY <1>2 DEF call_ends, StepsTo
  <2> QED
    BY <2>1, <2>2, OrderlyBelow
<1> QED
  BY <1>1, <1>2

(* Loops.                                                                  *)
LEMMA OrderlyLoop ==
    ASSUME RunsInShape, NEW r \in Runs, begin_loop(r) \/ next_round(r) \/ loop_ends(r) PROVE Orderly(r)
<1>1. CASE begin_loop(r)
  <2>1. PICK x : x = [kind |-> "loop", loop |-> Instruction(r).loop, body |-> Instruction(r).body,
                      left |-> Instruction(r).rounds]
    OBVIOUS
  <2>2. Plain(x)
    BY <2>1, PlainFrames
  <2>3. MayBegin(r) /\ StepsTo(r, Append(Advanced(r), x), "none")
    BY <1>1, <2>1 DEF begin_loop, Begins, StepsTo
  <2> QED
    BY <2>2, <2>3, OrderlyOne
<1>2. CASE next_round(r)
  <2>1. Executing(r) /\ Plain(Top(r))
    BY <1>2, AtWork DEF next_round
  <2>2. CASE Stops(r, Below(r), "leave")
    BY <2>1, <2>2, OrderlyBelow DEF StepsTo
  <2>3. CASE ~Stops(r, Below(r), "leave")
    <3>1. PICK x : x = [Top(r) EXCEPT !.left = @ - 1]
      OBVIOUS
    <3>2. Plain(x)
      BY <2>1, <3>1 DEF Plain
    <3>3. PICK y : y = Block(Top(r).body)
      OBVIOUS
    <3>4. Plain(y) /\ y.kind \notin Effects
      BY <3>3, PlainFrames
    <3>5. StepsTo(r, Below(r) \o <<x, y>>, "none")
      BY <1>2, <2>3, <3>1, <3>3 DEF next_round, StepsTo
    <3> QED
      BY <2>1, <3>2, <3>4, <3>5, OrderlyTopAndOne
  <2> QED
    BY <2>2, <2>3
<1>3. CASE loop_ends(r)
  <2>1. Executing(r)
    BY <1>3, AtWork DEF loop_ends
  <2>2. PICK s : StepsTo(r, Below(r), s)
    BY <1>3 DEF loop_ends, StepsTo
  <2> QED
    BY <2>1, <2>2, OrderlyBelow
<1> QED
  BY <1>1, <1>2, <1>3

(* Exception regions: where they begin.                                    *)
LEMMA OrderlyTry ==
    ASSUME RunsInShape, NEW r \in Runs, begin_try(r) \/ begin_retry(r) PROVE Orderly(r)
<1>1. PICK y : y = Block(Instruction(r).body)
  OBVIOUS
<1>2. Plain(y) /\ y.kind \notin Effects
  BY <1>1, PlainFrames
<1>3. CASE begin_try(r)
  <2>1. PICK x : x = [kind |-> "try", block |-> Top(r).block, at |-> Top(r).at, step |-> "body",
                      attempts |-> 0, pending |-> "none"]
    OBVIOUS
  <2>2. Plain(x) /\ x.kind \notin Effects
    BY <2>1, PlainFrames
  <2>3. MayBegin(r) /\ StepsTo(r, Advanced(r) \o <<x, y>>, "none")
    BY <1>1, <1>3, <2>1 DEF begin_try, Begins, StepsTo
  <2> QED
    BY <1>2, <2>2, <2>3, OrderlyTwo
<1>4. CASE begin_retry(r)
  <2>1. PICK x : x = [kind |-> "retry", body |-> Instruction(r).body, left |-> Instruction(r).count]
    OBVIOUS
  <2>2. Plain(x) /\ x.kind \notin Effects
    BY <2>1, PlainFrames
  <2>3. MayBegin(r) /\ StepsTo(r, Advanced(r) \o <<x, y>>, "none")
    BY <1>1, <1>4, <2>1 DEF begin_retry, Begins, StepsTo
  <2> QED
    BY <1>2, <2>2, <2>3, OrderlyTwo
<1> QED
  BY <1>3, <1>4

(* Exception regions: their branches, attempts and ends.                   *)
LEMMA OrderlyRegion ==
    ASSUME RunsInShape, NEW r \in Runs,
           \/ try_retries(r) \/ interval_ends(r) \/ try_catches(r) \/ try_finally(r) \/ try_ends(r)
           \/ retry_ends(r)
    PROVE  Orderly(r)
<1>1. Executing(r) /\ Plain(Top(r))
  BY AtWork DEF try_retries, interval_ends, try_catches, try_finally, try_ends, retry_ends
<1>2. CASE try_retries(r)
  <2>1. PICK x : x = [Top(r) EXCEPT !.step = "waiting", !.attempts = @ + 1]
    OBVIOUS
  <2>2. Plain(x)
    BY <1>1, <2>1 DEF Plain
  <2>3. StepsTo(r, Append(Below(r), x), "none")
    BY <1>2, <2>1 DEF try_retries, StepsTo
  <2> QED
    BY <1>1, <2>2, <2>3, OrderlyTop
<1>3. CASE interval_ends(r)
  <2>1. PICK x : x = [Top(r) EXCEPT !.step = "body"]
    OBVIOUS
  <2>2. PICK z : z = [Top(r) EXCEPT !.step = "final", !.pending = "leave"]
    OBVIOUS
  <2>3. Plain(x) /\ Plain(z)
    BY <1>1, <2>1, <2>2 DEF Plain
  <2>4. \/ StepsTo(r, Below(r) \o <<x, Block(RegionOf(r).body)>>, "none")
        \/ StepsTo(r, Below(r) \o <<z, Block(RegionOf(r).final)>>, "none")
    BY <1>3, <2>1, <2>2 DEF interval_ends, StepsTo
  <2>5. \A b : Plain(Block(b)) /\ Block(b).kind \notin Effects
    BY PlainFrames
  <2> QED
    BY <1>1, <2>3, <2>4, <2>5, OrderlyTopAndOne
<1>4. CASE try_catches(r)
  <2>1. PICK x : x = [Top(r) EXCEPT !.step = "catch"]
    OBVIOUS
  <2>2. Plain(x)
    BY <1>1, <2>1 DEF Plain
  <2>3. PICK b : StepsTo(r, Below(r) \o <<x, Block(b)>>, "none")
    BY <1>4, <2>1 DEF try_catches, StepsTo
  <2>4. Plain(Block(b)) /\ Block(b).kind \notin Effects
    BY PlainFrames
  <2> QED
    BY <1>1, <2>2, <2>3, <2>4, OrderlyTopAndOne
<1>5. CASE try_finally(r)
  <2>1. PICK x : x = [Top(r) EXCEPT !.step = "final", !.pending = run[r].signal]
    OBVIOUS
  <2>2. Plain(x)
    BY <1>1, <2>1 DEF Plain
  <2>3. StepsTo(r, Below(r) \o <<x, Block(RegionOf(r).final)>>, "none")
    BY <1>5, <2>1 DEF try_finally, Finally, StepsTo
  <2>4. \A b : Plain(Block(b)) /\ Block(b).kind \notin Effects
    BY PlainFrames
  <2> QED
    BY <1>1, <2>2, <2>3, <2>4, OrderlyTopAndOne
<1>6. CASE try_ends(r)
  <2>1. PICK s : StepsTo(r, Below(r), s)
    BY <1>6 DEF try_ends, StepsTo
  <2> QED
    BY <1>1, <2>1, OrderlyBelow
<1>7. CASE retry_ends(r)
  <2>1. CASE Continues(r, Below(r), run[r].signal)
    BY <1>1, <2>1, OrderlyBelow DEF StepsTo
  <2>2. CASE ~Continues(r, Below(r), run[r].signal)
    <3>1. PICK x : x = [Top(r) EXCEPT !.left = @ - 1]
      OBVIOUS
    <3>2. Plain(x)
      BY <1>1, <3>1 DEF Plain
    <3>3. StepsTo(r, Below(r) \o <<x, Block(Top(r).body)>>, "none")
      BY <1>7, <2>2, <3>1 DEF retry_ends, StepsTo
    <3>4. \A b : Plain(Block(b)) /\ Block(b).kind \notin Effects
      BY PlainFrames
    <3> QED
      BY <1>1, <3>2, <3>3, <3>4, OrderlyTopAndOne
  <2> QED
    BY <2>1, <2>2
<1> QED
  BY <1>2, <1>3, <1>4, <1>5, <1>6, <1>7

(* Listeners: a run that is not cancelled registers one.                   *)
LEMMA OrderlyListen == ASSUME RunsInShape, NEW r \in Runs, begin_listen(r) PROVE Orderly(r)
<1>1. MayBegin(r)
  BY DEF begin_listen, Begins
<1>2. /\ ~run[r].cancel
      /\ Fine(run[r].frames, Advanced(r), run[r].stack, HomeOf[r], run[r].cancel)
  BY <1>1, Advances
<1>3. DOMAIN run = Runs /\ DOMAIN run[r] = RunFields
  BY DEF RunsInShape, Shape
<1>4. PICK l : l = IF Instruction(r).handler \in ToSet(run[r].listeners) THEN run[r].listeners
                   ELSE Append(run[r].listeners, Instruction(r).handler)
  OBVIOUS
<1>5. PICK y : y = [run[r] EXCEPT !.frames = Advanced(r)]
  OBVIOUS
<1>6. DOMAIN y = RunFields /\ y.frames = Advanced(r) /\ y.stack = run[r].stack /\ y.at = run[r].at
      /\ y.listeners = run[r].listeners
  BY <1>3, <1>5 DEF RunFields
<1>7. PICK z : z = [y EXCEPT !.listeners = l]
  OBVIOUS
<1>8. run' = [run EXCEPT ![r] = z]
  BY <1>3, <1>4, <1>5, <1>6, <1>7 DEF begin_listen
<1>9. DOMAIN z = RunFields /\ z.frames = Advanced(r) /\ z.stack = run[r].stack /\ z.at = run[r].at
  BY <1>6, <1>7 DEF RunFields
<1>10. DOMAIN run' = Runs /\ run'[r] = z /\ \A q \in Runs : q # r => run'[q] = run[q]
  BY <1>3, <1>8
<1>11. Only(r, Advanced(r), run[r].stack)
  BY <1>2, <1>9, <1>10 DEF Only
<1> QED
  BY <1>2, <1>11 DEF Orderly

(* Listeners: the rounds of a dispatch.                                    *)
LEMMA OrderlyDispatch ==
    ASSUME RunsInShape, NEW r \in Runs, look_for_message(r) \/ next_listener(r) \/ dispatch_fails(r)
    PROVE  Orderly(r)
<1>1. Executing(r) /\ Plain(Top(r))
  BY AtWork DEF look_for_message, next_listener, dispatch_fails
<1>2. CASE \E s : StepsTo(r, Below(r), s)
  BY <1>1, <1>2, OrderlyBelow
<1>3. CASE ~(\E s : StepsTo(r, Below(r), s))
  <2>1. PICK x : x = [Top(r) EXCEPT !.looked = TRUE]
    OBVIOUS
  <2>2. PICK y : y = [Top(r) EXCEPT !.left = Tail(@), !.looked = FALSE]
    OBVIOUS
  <2>3. Plain(x) /\ Plain(y)
    BY <1>1, <2>1, <2>2 DEF Plain
  <2>4. StepsTo(r, Append(Below(r), x), "none") \/ StepsTo(r, Append(Below(r), y), "none")
    BY <1>3, <2>1, <2>2 DEF look_for_message, next_listener, dispatch_fails, StepsTo
  <2> QED
    BY <1>1, <2>3, <2>4, OrderlyTop
<1> QED
  BY <1>2, <1>3

(* A message is taken: its handler is on top of the dispatch.              *)
LEMMA OrderlyTake == ASSUME RunsInShape, NEW r \in Runs, take_message(r) PROVE Orderly(r)
<1>1. Executing(r) /\ Plain(Top(r)) /\ Top(r).kind = "dispatch"
  BY AtWork DEF take_message
<1>2. PICK x : x = [Top(r) EXCEPT !.looked = FALSE]
  OBVIOUS
<1>3. Plain(x) /\ x.kind = "dispatch"
  BY <1>1, <1>2 DEF Plain
<1>4. PICK y : y = [kind |-> "handler"]
  OBVIOUS
<1>5. y.kind = "handler" /\ y.kind \notin Effects
  BY <1>4 DEF Effects
<1>6. PICK B : B = Append(Below(r), x)
  OBVIOUS
<1>7. Fine(run[r].frames, B, run[r].stack, HomeOf[r], run[r].cancel)
  BY <1>1, <1>3, <1>6, FineTop DEF Executing, Top, Below
<1>8. B # <<>> /\ Last(B).kind = "dispatch"
  <2>1. IsSeq(Below(r))
    BY <1>1, PoppedIsUnder DEF Executing, Good, Below, IsPop
  <2>2. Last(B) = x /\ IsPush(B, Below(r), x)
    BY <1>6, <2>1, PushedTop, Pushed
  <2> QED
    BY <1>3, <2>2 DEF IsPush
<1>9. PICK T : T = Below(r) \o <<x, y>>
  OBVIOUS
<1>10. T = Append(B, y)
  <2>1. IsSeq(Below(r))
    BY <1>1, PoppedIsUnder DEF Executing, Good, Below, IsPop
  <2>2. Twice(Below(r), x, y)
    BY <2>1, PushedTwice, Zenon
  <2> QED
    BY <1>6, <1>9, <2>2 DEF Twice
<1>11. Fine(run[r].frames, T, run[r].stack, HomeOf[r], run[r].cancel)
  BY <1>5, <1>7, <1>8, <1>10, FineAbove DEF Fine
<1>12. PICK G : G = T \o <<Call, Block(Head(Top(r).left))>>
  OBVIOUS
<1>13. Fine(run[r].frames, G, run[r].stack, HomeOf[r], run[r].cancel)
  <2>1. PICK b : b = Block(Head(Top(r).left))
    OBVIOUS
  <2>2. Plain(Call) /\ Plain(b) /\ Call.kind \notin Effects /\ b.kind \notin Effects
    BY <2>1, PlainFrames
  <2> QED
    BY <1>11, <1>12, <2>1, <2>2, FineTwoOnTop
<1>14. PICK m : \/ run' = [run EXCEPT ![r].inbox = @ \ {m}, ![r].dispatching = TRUE, ![r].frames = G]
                \/ run' = [run EXCEPT ![r].inbox = @ \ {m}, ![r].dispatching = TRUE, ![r].frames = T,
                                      ![r].signal = "permanent"]
  BY <1>2, <1>4, <1>9, <1>12 DEF take_message
<1>15. DOMAIN run = Runs /\ DOMAIN run[r] = RunFields
  BY DEF RunsInShape, Shape
<1>16. PICK u : u = [run[r] EXCEPT !.inbox = @ \ {m}]
  OBVIOUS
<1>17. DOMAIN u = RunFields /\ u.stack = run[r].stack /\ u.at = run[r].at /\ u.listeners = run[r].listeners
  BY <1>15, <1>16 DEF RunFields
<1>18. PICK v : v = [u EXCEPT !.dispatching = TRUE]
  OBVIOUS
<1>19. DOMAIN v = RunFields /\ v.stack = run[r].stack /\ v.at = run[r].at /\ v.listeners = run[r].listeners
  BY <1>17, <1>18 DEF RunFields
<1>20. PICK w : w = [v EXCEPT !.frames = G]
  OBVIOUS
<1>21. DOMAIN w = RunFields /\ w.frames = G /\ w.stack = run[r].stack /\ w.at = run[r].at
       /\ w.listeners = run[r].listeners
  BY <1>19, <1>20 DEF RunFields
<1>22. PICK t : t = [v EXCEPT !.frames = T]
  OBVIOUS
<1>23. DOMAIN t = RunFields /\ t.frames = T /\ t.stack = run[r].stack /\ t.at = run[r].at
       /\ t.listeners = run[r].listeners
  BY <1>19, <1>22 DEF RunFields
<1>24. PICK z : z = [t EXCEPT !.signal = "permanent"]
  OBVIOUS
<1>25. DOMAIN z = RunFields /\ z.frames = T /\ z.stack = run[r].stack /\ z.at = run[r].at
       /\ z.listeners = run[r].listeners
  BY <1>23, <1>24 DEF RunFields
<1>26. CASE run' = [run EXCEPT ![r].inbox = @ \ {m}, ![r].dispatching = TRUE, ![r].frames = G]
  <2>1. run' = [run EXCEPT ![r] = w]
    BY <1>15, <1>16, <1>18, <1>20, <1>26
  <2>2. DOMAIN run' = Runs /\ run'[r] = w /\ \A q \in Runs : q # r => run'[q] = run[q]
    BY <1>15, <2>1
  <2>3. Only(r, G, run[r].stack)
    BY <1>21, <2>2 DEF Only
  <2> QED
    BY <1>13, <2>3 DEF Orderly
<1>27. CASE run' = [run EXCEPT ![r].inbox = @ \ {m}, ![r].dispatching = TRUE, ![r].frames = T,
                               ![r].signal = "permanent"]
  <2>1. run' = [run EXCEPT ![r] = z]
    BY <1>15, <1>16, <1>18, <1>22, <1>24, <1>27
  <2>2. DOMAIN run' = Runs /\ run'[r] = z /\ \A q \in Runs : q # r => run'[q] = run[q]
    BY <1>15, <2>1
  <2>3. Only(r, T, run[r].stack)
    BY <1>25, <2>2 DEF Only
  <2> QED
    BY <1>11, <2>3 DEF Orderly
<1> QED
  BY <1>14, <1>26, <1>27

(* A handler has ended, and its dispatch with it if the run was cancelled. *)
LEMMA OrderlyHandler == ASSUME RunsInShape, NEW r \in Runs, handler_ends(r) PROVE Orderly(r)
<1>1. PICK F : F = run[r].frames
  OBVIOUS
<1>2. F # <<>> /\ Last(F).kind = "handler"
  BY <1>1 DEF handler_ends, In, Top
<1>3. Good(F, run[r].stack, HomeOf[r]) /\ IsSeq(F)
  <2>1. Shape(run[r], HomeOf[r])
    BY DEF RunsInShape
  <2> QED
    BY <1>1, <1>2, <2>1, OpeningTop DEF Shape, Idle, EntersScope, Asks, Good
<1>4. PICK B : B = Front(F)
  OBVIOUS
<1>5. Fine(F, B, run[r].stack, HomeOf[r], run[r].cancel)
  BY <1>2, <1>3, <1>4, FineBelow
<1>6. B # <<>> /\ Last(B).kind = "dispatch"
  <2>1. /\ Len(F) \in 1..Len(F) /\ Last(F) = F[Len(F)]
        /\ Len(F) \in Nat /\ IsSeq(B) /\ Len(B) \in Nat /\ Len(B) = Len(F) - 1
        /\ \A i \in 1..Len(B) : B[i] = F[i]
    BY <1>2, <1>3, <1>4, Popped DEF IsPop
  <2>2. FrameOk(F, Len(F))
    BY <1>3, <2>1 DEF Good
  <2>3. Len(F) > 1 /\ F[Len(F) - 1].kind = "dispatch"
    BY <1>2, <2>1, <2>2 DEF FrameOk, Handles, Plain, IsScope
  <2>4. Len(B) > 0 /\ Len(B) \in 1..Len(B)
    BY <2>1, <2>3
  <2>5. B # <<>>
    BY <2>4
  <2>6. Last(B) = B[Len(B)]
    BY <2>1, <2>5, Popped
  <2> QED
    BY <2>1, <2>3, <2>4, <2>5, <2>6
<1>7. PICK C : C = Front(B)
  OBVIOUS
<1>8. Fine(F, C, run[r].stack, HomeOf[r], run[r].cancel)
  <2>1. Fine(B, C, run[r].stack, HomeOf[r], run[r].cancel)
    BY <1>5, <1>6, <1>7, FineBelow DEF Fine
  <2>2. IsPop(B, F) /\ IsPop(C, B)
    BY <1>2, <1>3, <1>4, <1>5, <1>6, <1>7, PoppedIsUnder DEF Fine, Good
  <2>3. ~(Len(C) > Len(F))
    BY <2>2 DEF IsPop
  <2> QED
    BY <1>5, <2>1, <2>3 DEF Fine, Calm
<1>9. PICK G : /\ G = IF Quiet(r) /\ (run[r].cancel \/ run[r].status = "cancelled")
                      THEN Front(Below(r)) ELSE Below(r)
               /\ Fine(F, G, run[r].stack, HomeOf[r], run[r].cancel)
  BY <1>1, <1>4, <1>5, <1>7, <1>8 DEF Below
<1>10. DOMAIN run = Runs /\ DOMAIN run[r] = RunFields
  BY DEF RunsInShape, Shape
<1>11. PICK y : y = [run[r] EXCEPT !.dispatching = FALSE]
  OBVIOUS
<1>12. DOMAIN y = RunFields /\ y.stack = run[r].stack /\ y.at = run[r].at /\ y.listeners = run[r].listeners
  BY <1>10, <1>11 DEF RunFields
<1>13. PICK z : z = [y EXCEPT !.frames = G]
  OBVIOUS
<1>14. DOMAIN z = RunFields /\ z.frames = G /\ z.stack = run[r].stack /\ z.at = run[r].at
       /\ z.listeners = run[r].listeners
  BY <1>12, <1>13 DEF RunFields
<1>15. run' = [run EXCEPT ![r] = z]
  BY <1>9, <1>10, <1>11, <1>13 DEF handler_ends
<1>16. DOMAIN run' = Runs /\ run'[r] = z /\ \A q \in Runs : q # r => run'[q] = run[q]
  BY <1>10, <1>15
<1>17. Only(r, G, run[r].stack)
  BY <1>14, <1>16 DEF Only
<1> QED
  BY <1>1, <1>9, <1>17 DEF Orderly

-----------------------------------------------------------------------------
(* Scopes.                                                                  *)

\* What a step leaves: its run in shape, with the targets X held, and nothing begun if
\* it was cancelled.
Result(r, X) ==
    /\ DOMAIN run' = Runs
    /\ \A q \in Runs : q # r => run'[q] = run[q]
    /\ Shape(run'[r], HomeOf[r])
    /\ run'[r].at = run[r].at
    /\ Held(run'[r].frames) = X
    /\ run[r].cancel => Calm(run[r].frames, run'[r].frames) /\ run'[r].listeners = run[r].listeners

(* A run that has frames is running.                                       *)
LEMMA Running ==
    ASSUME RunsInShape, NEW r \in Runs, run[r].frames # <<>> PROVE run[r].at = "running"
BY DEF RunsInShape, Shape

(* A step to a run at work.                                                *)
LEMMA WorkResult ==
    ASSUME RunsInShape, NEW r \in Runs, run[r].frames # <<>>, NEW G, NEW T, Only(r, G, T),
           Good(G, T, HomeOf[r]), run[r].cancel => Calm(run[r].frames, G)
    PROVE  Result(r, Held(G))
<1>1. run[r].at = "running"
  BY Running
<1>2. IsSeq(G)
  BY DEF Good
<1>3. Shape(run'[r], HomeOf[r])
  BY <1>1, <1>2 DEF Only, Shape
<1> QED
  BY <1>3 DEF Only, Result

(* A step that enters or leaves no scope.                                  *)
LEMMA OrderlyResult ==
    ASSUME RunsInShape, NEW r \in Runs, run[r].frames # <<>>, Orderly(r)
    PROVE  Result(r, Held(run[r].frames))
<1>1. PICK G : Only(r, G, run[r].stack) /\ Fine(run[r].frames, G, run[r].stack, HomeOf[r], run[r].cancel)
  BY DEF Orderly
<1>2. Result(r, Held(G))
  BY <1>1, WorkResult DEF Fine
<1> QED
  BY <1>1, <1>2 DEF Fine

(* A step to the entry of a scope.                                         *)
LEMMA EntryResult ==
    ASSUME RunsInShape, NEW r \in Runs, run[r].frames # <<>>, NEW B, NEW x,
           Only(r, Append(B, x), run[r].stack), Good(B, run[r].stack, HomeOf[r]), Asks(x, run[r].stack),
           run[r].cancel => Calm(run[r].frames, Append(B, x))
    PROVE  /\ ~x.acquired => Result(r, Held(B))
           /\ x.acquired => Result(r, Held(B) \cup {x.target})
<1>1. run[r].at = "running"
  BY Running
<1>2. PICK G : G = Append(B, x)
  OBVIOUS
<1>3. IsPush(G, B, x) /\ Last(G) = x /\ Front(G) = B
  BY <1>2, Pushed, PushedTop DEF Good
<1>4. G # <<>> /\ IsSeq(G)
  BY <1>3 DEF IsPush
<1>5. Only(r, G, run[r].stack) /\ (run[r].cancel => Calm(run[r].frames, G))
  BY <1>2
<1>6. run'[r].frames = G /\ run'[r].stack = run[r].stack
  BY <1>5 DEF Only
<1>7. EntersScope(run'[r], HomeOf[r])
  BY <1>3, <1>4, <1>6 DEF EntersScope
<1>8. Shape(run'[r], HomeOf[r])
  BY <1>1, <1>4, <1>5, <1>6, <1>7 DEF Only, Shape
<1>9. x.kind = "entering"
  BY DEF Asks
<1>10. /\ ~x.acquired => Held(G) = Held(B)
       /\ x.acquired => Held(G) = Held(B) \cup {x.target}
  BY <1>3, <1>9, HeldAbove
<1> QED
  BY <1>5, <1>6, <1>8, <1>10 DEF Only, Result

(* A run that enters a scope.                                              *)
LEMMA AtEntry ==
    ASSUME RunsInShape, NEW r \in Runs, In(r, "entering")
    PROVE  /\ run[r].frames # <<>> /\ Good(Below(r), run[r].stack, HomeOf[r]) /\ Asks(Top(r), run[r].stack)
           /\ IsSeq(Below(r)) /\ Calm(run[r].frames, Below(r))
           /\ \A x : Calm(run[r].frames, Append(Below(r), x))
           /\ ~Top(r).acquired => Held(run[r].frames) = Held(Below(r))
           /\ Top(r).acquired => Held(run[r].frames) = Held(Below(r)) \cup {Top(r).target}
<1>1. PICK F : F = run[r].frames
  OBVIOUS
<1>2. F # <<>> /\ Last(F).kind = "entering" /\ Top(r) = Last(F) /\ Below(r) = Front(F)
  BY <1>1 DEF In, Top, Below
<1>3. Shape(run[r], HomeOf[r])
  BY DEF RunsInShape
<1>4. IsSeq(F)
  BY <1>1, <1>3 DEF Shape
<1>5. ~Good(F, run[r].stack, HomeOf[r])
  <2>1. SUFFICES ASSUME Good(F, run[r].stack, HomeOf[r]) PROVE FALSE
    OBVIOUS
  <2>2. Len(F) \in 1..Len(F) /\ Last(F) = F[Len(F)]
    BY <1>2, <1>4, Popped
  <2>3. FrameOk(F, Len(F))
    BY <2>1, <2>2 DEF Good
  <2> QED
    BY <1>2, <2>2, <2>3 DEF FrameOk, Plain, IsScope, Handles
<1>6. EntersScope(run[r], HomeOf[r])
  BY <1>1, <1>2, <1>3, <1>5, OpeningTop DEF Shape, Idle
<1>7. IsPush(F, Front(F), Last(F)) /\ IsPop(Front(F), F)
  BY <1>2, <1>4, PoppedIsUnder
<1>8. IsSeq(Front(F)) /\ Calm(F, Front(F))
  BY <1>7 DEF IsPop, Calm
<1>9. ASSUME NEW x PROVE Calm(F, Append(Front(F), x))
  <2>1. IsPush(Append(Front(F), x), Front(F), x)
    BY <1>8, Pushed
  <2>2. ~(Len(Append(Front(F), x)) > Len(F))
    BY <1>7, <2>1 DEF IsPop, IsPush
  <2> QED
    BY <2>2 DEF Calm
<1>10. /\ ~Last(F).acquired => Held(F) = Held(Front(F))
       /\ Last(F).acquired => Held(F) = Held(Front(F)) \cup {Last(F).target}
  BY <1>2, <1>7, HeldAbove
<1> QED
  BY <1>1, <1>2, <1>6, <1>8, <1>9, <1>10 DEF EntersScope

(* A scope is begun.                                                       *)
LEMMA ScopeBegun ==
    ASSUME RunsInShape, NEW r \in Runs, begin_scope(r)
    PROVE  run[r].frames # <<>> /\ Result(r, Held(run[r].frames))
<1>1. MayBegin(r)
  BY DEF begin_scope, Begins
<1>2. /\ run[r].frames # <<>> /\ ~run[r].cancel
      /\ Good(Advanced(r), run[r].stack, HomeOf[r]) /\ Held(Advanced(r)) = Held(run[r].frames)
  BY <1>1, Advances DEF Executing, Fine
<1>3. PICK x : x = [kind |-> "entering", target |-> Instruction(r).target, body |-> Instruction(r).body,
                    acquired |-> FALSE, asked |-> FALSE]
  OBVIOUS
<1>4. Asks(x, run[r].stack) /\ ~x.acquired
  BY <1>3 DEF Asks
<1>5. Continues(r, Append(Advanced(r), x), "none")
  BY <1>3 DEF begin_scope
<1>6. Only(r, Append(Advanced(r), x), run[r].stack)
  BY <1>5, RunsAreThere, Continued
<1> QED
  BY <1>2, <1>4, <1>6, EntryResult

(* The entry of a scope is refused, or its target is owned by another run. *)
LEMMA EntryLeft ==
    ASSUME RunsInShape, NEW r \in Runs, In(r, "entering"), NEW s, Continues(r, Below(r), s)
    PROVE  Result(r, Held(Below(r)))
<1>1. Only(r, Below(r), run[r].stack)
  BY RunsAreThere, Continued
<1> QED
  BY <1>1, AtEntry, WorkResult

(* A scope whose body begins.                                              *)
LEMMA ScopeEntered ==
    ASSUME RunsInShape, NEW r \in Runs, In(r, "entering"), NEW pushed \in BOOLEAN, NEW T,
           Only(r, Below(r) \o Scope(r, pushed), T),
           IsSeq(T), T # <<>>, T[Len(T)] = Top(r).target,
           \A i \in 1..Len(run[r].stack) : T[i] = run[r].stack[i],
           IF pushed THEN Len(T) = Len(run[r].stack) + 1 ELSE Len(T) = Len(run[r].stack),
           Top(r).acquired => pushed
    PROVE  Result(r, Held(run[r].frames))
<1>1. /\ run[r].frames # <<>> /\ Good(Below(r), run[r].stack, HomeOf[r]) /\ Asks(Top(r), run[r].stack)
      /\ IsSeq(Below(r))
      /\ ~Top(r).acquired => Held(run[r].frames) = Held(Below(r))
      /\ Top(r).acquired => Held(run[r].frames) = Held(Below(r)) \cup {Top(r).target}
  BY AtEntry
<1>2. PICK x : x = [kind |-> "scope", target |-> Top(r).target, acquired |-> Top(r).acquired, pushed |-> pushed]
  OBVIOUS
<1>3. PICK y : y = Block(Top(r).body)
  OBVIOUS
<1>4. /\ "kind" \in DOMAIN x /\ x.kind = "scope" /\ x.acquired = Top(r).acquired /\ x.pushed = pushed
      /\ x.target = Top(r).target
  BY <1>2
<1>5. PICK G : G = Append(Below(r), x)
  OBVIOUS
<1>6. IsPush(G, Below(r), x)
  BY <1>1, <1>5, Pushed
<1>7. G[Len(G)] = x /\ FrameOk(G, Len(G))
  <2>1. G[Len(G)] = x
    BY <1>6 DEF IsPush
  <2>2. IsScope(x)
    BY <1>1, <1>4 DEF IsScope, Asks
  <2> QED
    BY <2>1, <2>2 DEF FrameOk
<1>8. Good(G, T, HomeOf[r])
  <2>1. Under(T, run[r].stack, x)
    <3>1. IsSeq(run[r].stack) /\ run[r].stack # <<>>
      BY <1>1 DEF Good
    <3>2. \A i \in 1..Len(run[r].stack) : run[r].stack[i] = T[i]
      OBVIOUS
    <3> QED
      BY <1>4, <3>1, <3>2 DEF Under
  <2>2. x.kind = "scope" /\ x.acquired => x.target \notin ToSet(run[r].stack)
    BY <1>1, <1>4 DEF Asks
  <2> QED
    BY <1>1, <1>4, <1>6, <1>7, <2>1, <2>2, GoodAbove
<1>9. Held(G) = Held(run[r].frames)
  <2>1. /\ x.acquired => Held(G) = Held(Below(r)) \cup {x.target}
        /\ ~x.acquired => Held(G) = Held(Below(r))
    BY <1>4, <1>6, HeldAbove
  <2>2. Top(r).acquired \in BOOLEAN
    BY <1>1 DEF Asks
  <2> QED
    BY <1>1, <1>4, <2>1, <2>2
<1>10. Plain(y) /\ y.kind \notin Effects
  BY <1>3, PlainFrames
<1>11. Fine(run[r].frames, Append(G, y), T, HomeOf[r], TRUE)
  BY <1>8, <1>9, <1>10, FineAbove
<1>12. Below(r) \o Scope(r, pushed) = Append(G, y)
  <2>1. Twice(Below(r), x, y)
    BY <1>1, PushedTwice, Zenon
  <2> QED
    BY <1>2, <1>3, <1>5, <2>1 DEF Twice, Scope
<1>13. Only(r, Append(G, y), T)
  BY <1>12
<1>14. Result(r, Held(Append(G, y)))
  BY <1>1, <1>11, <1>13, WorkResult DEF Fine
<1> QED
  BY <1>11, <1>14 DEF Fine

(* The entry of a scope, to its body.                                      *)
LEMMA EntrySteps ==
    ASSUME RunsInShape, NEW r \in Runs,
           enter_refused(r) \/ enter_same(r) \/ enter_again(r) \/ first_frame(r)
    PROVE  run[r].frames # <<>> /\ Result(r, Held(run[r].frames))
<1>1. In(r, "entering")
  BY DEF enter_refused, enter_same, enter_again, first_frame, Entering
<1>2. /\ run[r].frames # <<>> /\ Good(Below(r), run[r].stack, HomeOf[r]) /\ Asks(Top(r), run[r].stack)
      /\ \A x : Calm(run[r].frames, Append(Below(r), x))
      /\ ~Top(r).acquired => Held(run[r].frames) = Held(Below(r))
  BY <1>1, AtEntry
<1>3. IsSeq(run[r].stack) /\ run[r].stack # <<>>
  BY <1>2 DEF Good
<1>4. CASE enter_refused(r)
  <2>1. PICK s : Continues(r, Below(r), s)
    BY <1>4 DEF enter_refused
  <2>2. Result(r, Held(Below(r)))
    BY <1>1, <2>1, EntryLeft
  <2>3. ~Top(r).acquired
    BY <1>2, <1>4 DEF enter_refused, Entering, Asks
  <2> QED
    BY <1>2, <2>2, <2>3
<1>5. CASE enter_same(r)
  <2>1. Continues(r, Below(r) \o Scope(r, FALSE), "none") /\ Top(r).target = Last(run[r].stack)
    BY <1>5 DEF enter_same
  <2>2. Only(r, Below(r) \o Scope(r, FALSE), run[r].stack)
    BY <2>1, RunsAreThere, Continued
  <2>3. run[r].stack[Len(run[r].stack)] = Top(r).target
    BY <1>3, <2>1, Popped
  <2>4. ~Top(r).acquired
    BY <1>2, <1>5 DEF enter_same, Entering, Asks
  <2>5. PICK pushed \in BOOLEAN : pushed = FALSE
    OBVIOUS
  <2>6. Result(r, Held(run[r].frames))
    BY <1>1, <1>3, <2>2, <2>3, <2>4, <2>5, ScopeEntered
  <2> QED
    BY <1>2, <2>6
<1>6. CASE enter_again(r)
  <2>1. PICK x : x = [Top(r) EXCEPT !.asked = TRUE]
    OBVIOUS
  <2>2. ~Top(r).acquired
    BY <1>2, <1>6 DEF enter_again, Entering, Asks
  <2>3. Asks(x, run[r].stack) /\ ~x.acquired
    BY <1>2, <2>1, <2>2 DEF Asks
  <2>4. Continues(r, Append(Below(r), x), "none")
    BY <1>6, <2>1 DEF enter_again
  <2>5. Only(r, Append(Below(r), x), run[r].stack)
    BY <2>4, RunsAreThere, Continued
  <2>6. Result(r, Held(Below(r)))
    BY <1>2, <2>3, <2>5, EntryResult
  <2> QED
    BY <1>2, <2>2, <2>6
<1>7. CASE first_frame(r)
  <2>1. PICK T : T = Append(run[r].stack, Top(r).target)
    OBVIOUS
  <2>2. IsPush(T, run[r].stack, Top(r).target)
    BY <1>3, <2>1, Pushed
  <2>3. /\ IsSeq(T) /\ T # <<>> /\ T[Len(T)] = Top(r).target /\ Len(T) = Len(run[r].stack) + 1
        /\ \A i \in 1..Len(run[r].stack) : T[i] = run[r].stack[i]
    BY <2>2 DEF IsPush
  <2>4. DOMAIN run = Runs /\ DOMAIN run[r] = RunFields
    BY DEF RunsInShape, Shape
  <2>5. PICK G : G = Below(r) \o Scope(r, TRUE)
    OBVIOUS
  <2>6. PICK y : y = [run[r] EXCEPT !.frames = G]
    OBVIOUS
  <2>7. DOMAIN y = RunFields /\ y.frames = G /\ y.stack = run[r].stack /\ y.at = run[r].at
        /\ y.listeners = run[r].listeners
    BY <2>4, <2>6 DEF RunFields
  <2>8. PICK z : z = [y EXCEPT !.stack = T]
    OBVIOUS
  <2>9. DOMAIN z = RunFields /\ z.frames = G /\ z.stack = T /\ z.at = run[r].at /\ z.listeners = run[r].listeners
    BY <2>7, <2>8 DEF RunFields
  <2>10. run' = [run EXCEPT ![r] = z]
    BY <1>7, <2>1, <2>4, <2>5, <2>6, <2>7, <2>8 DEF first_frame
  <2>11. DOMAIN run' = Runs /\ run'[r] = z /\ \A q \in Runs : q # r => run'[q] = run[q]
    BY <2>4, <2>10
  <2>12. Only(r, G, T)
    BY <2>9, <2>11 DEF Only
  <2>13. PICK pushed \in BOOLEAN : pushed = TRUE
    OBVIOUS
  <2>14. Only(r, Below(r) \o Scope(r, pushed), T)
    BY <2>5, <2>12, <2>13
  <2>15. Result(r, Held(run[r].frames))
    BY <1>1, <2>3, <2>13, <2>14, ScopeEntered
  <2> QED
    BY <1>2, <2>15
<1> QED
  BY <1>4, <1>5, <1>6, <1>7

(* A scope is left: what it had acquired is no longer held, and was held    *)
(* once.                                                                    *)
LEMMA ScopeLeft ==
    ASSUME RunsInShape, NEW r \in Runs, scope_ends(r)
    PROVE  /\ run[r].frames # <<>>
           /\ \E X : /\ Result(r, X)
                     /\ ~Top(r).acquired => X = Held(run[r].frames)
                     /\ Top(r).acquired =>
                          /\ Held(run[r].frames) = X \cup {Top(r).target} /\ Top(r).target \notin X
                          /\ Top(r).target \in Targets /\ Top(r).target # HomeOf[r]
<1>1. PICK F : F = run[r].frames
  OBVIOUS
<1>2. PICK S : S = run[r].stack
  OBVIOUS
<1>3. PICK x : x = Last(F)
  OBVIOUS
<1>4. F # <<>> /\ x.kind = "scope" /\ Top(r) = x
  BY <1>1, <1>3 DEF scope_ends, In, Top
<1>5. Good(F, S, HomeOf[r]) /\ IsSeq(F) /\ IsSeq(S) /\ S # <<>>
  <2>1. Shape(run[r], HomeOf[r])
    BY DEF RunsInShape
  <2> QED
    BY <1>1, <1>2, <1>3, <1>4, <2>1, OpeningTop DEF Shape, Idle, EntersScope, Asks, Good
<1>6. Len(F) \in 1..Len(F) /\ x = F[Len(F)] /\ Len(F) \in Nat
  BY <1>3, <1>4, <1>5, Popped DEF IsPop
<1>7. IsScope(x)
  <2>1. FrameOk(F, Len(F))
    BY <1>5, <1>6 DEF Good
  <2> QED
    BY <1>4, <1>6, <2>1 DEF FrameOk, Plain, Handles
<1>8. PICK T : T = IF x.pushed THEN Front(S) ELSE S
  OBVIOUS
<1>9. IsSeq(T) /\ T # <<>> /\ Len(T) \in Nat /\ Under(S, T, x)
  <2>1. Len(S) \in Nat
    BY <1>5 DEF IsSeq
  <2>2. CASE x.pushed
    <3>1. PICK d : Scoped(F, S, HomeOf[r], d)
      BY <1>5 DEF Good
    <3>2. d[Len(F)] = Len(S)
      BY <3>1 DEF Scoped
    <3>3. d[Len(F)] = d[Len(F) - 1] + 1
      BY <1>4, <1>6, <2>2, <3>1 DEF Scoped
    <3>4. d[Len(F) - 1] \in 1..Len(S)
      <4>1. Len(F) - 1 \in 0..Len(F)
        BY <1>6
      <4>2. d \in [0..Len(F) -> 1..Len(S)]
        BY <3>1 DEF Scoped
      <4> QED
        BY <4>1, <4>2
    <3>5. Len(S) > 1
      BY <2>1, <3>2, <3>3, <3>4
    <3>6. IsPop(T, S)
      BY <1>5, <1>8, <2>2, Popped
    <3>7. /\ IsSeq(T) /\ Len(T) \in Nat /\ Len(T) = Len(S) - 1
          /\ \A i \in 1..Len(T) : T[i] = S[i]
      BY <3>6 DEF IsPop
    <3>8. T # <<>> /\ Len(S) = Len(T) + 1
      BY <2>1, <3>5, <3>7
    <3> QED
      BY <1>4, <2>2, <3>7, <3>8 DEF Under
  <2>3. CASE ~x.pushed
    BY <1>5, <1>8, <2>1, <2>3 DEF Under
  <2> QED
    BY <2>2, <2>3
<1>10. PICK B : B = Front(F)
  OBVIOUS
<1>11. Good(B, T, HomeOf[r])
  BY <1>3, <1>4, <1>5, <1>9, <1>10, GoodBelow
<1>12. IsPush(F, B, x) /\ IsPop(B, F)
  BY <1>3, <1>4, <1>5, <1>10, PoppedIsUnder
<1>13. Calm(F, B)
  BY <1>12 DEF IsPop, Calm
<1>14. Only(r, B, T)
  <2>1. DOMAIN run = Runs /\ DOMAIN run[r] = RunFields
    BY DEF RunsInShape, Shape
  <2>2. PICK y : y = [run[r] EXCEPT !.frames = B]
    OBVIOUS
  <2>3. DOMAIN y = RunFields /\ y.frames = B /\ y.stack = S /\ y.at = run[r].at /\ y.listeners = run[r].listeners
    BY <1>2, <2>1, <2>2 DEF RunFields
  <2>4. PICK z : z = [y EXCEPT !.stack = T]
    OBVIOUS
  <2>5. DOMAIN z = RunFields /\ z.frames = B /\ z.stack = T /\ z.at = run[r].at /\ z.listeners = run[r].listeners
    BY <2>3, <2>4 DEF RunFields
  <2>6. run' = [run EXCEPT ![r] = z]
    BY <1>1, <1>2, <1>4, <1>8, <1>10, <2>1, <2>2, <2>3, <2>4 DEF scope_ends, Below
  <2>7. DOMAIN run' = Runs /\ run'[r] = z /\ \A q \in Runs : q # r => run'[q] = run[q]
    BY <2>1, <2>6
  <2> QED
    BY <2>5, <2>7 DEF Only
<1>15. Result(r, Held(B))
  BY <1>1, <1>4, <1>11, <1>13, <1>14, WorkResult
<1>16. ~x.acquired => Held(B) = Held(F)
  BY <1>12, HeldAbove
<1>17. ASSUME x.acquired
       PROVE  /\ Held(F) = Held(B) \cup {x.target} /\ x.target \notin Held(B)
              /\ x.target \in Targets /\ x.target # HomeOf[r]
  <2>1. /\ Acquired(F) = Acquired(B) \cup {Len(F)} /\ Held(F) = Held(B) \cup {x.target}
        /\ \A i \in Acquired(B) : i # Len(F) /\ i \in Acquired(F) /\ F[i] = B[i]
    BY <1>4, <1>12, <1>17, HeldAbove
  <2>2. Len(F) \in Acquired(F)
    BY <2>1
  <2>3. x.target # HomeOf[r] /\ \A j \in Acquired(F) : x.target = F[j].target => Len(F) = j
    BY <1>5, <1>6, <2>2 DEF Good
  <2>4. x.target \notin Held(B)
    BY <2>1, <2>3 DEF Held
  <2> QED
    BY <1>7, <1>17, <2>1, <2>3, <2>4 DEF IsScope
<1> QED
  BY <1>1, <1>4, <1>15, <1>16, <1>17

(* An entry fails.                                                         *)
LEMMA EntryFailed ==
    ASSUME RunsInShape, NEW r \in Runs, first_frame_fails(r)
    PROVE  /\ run[r].frames # <<>>
           /\ \E X : /\ Result(r, X)
                     /\ ~Top(r).acquired => X = Held(run[r].frames)
                     /\ Top(r).acquired =>
                          /\ Held(run[r].frames) = X \cup {Top(r).target} /\ Top(r).target \notin X
                          /\ Top(r).target \in Targets /\ Top(r).target # HomeOf[r]
<1>1. In(r, "entering")
  BY DEF first_frame_fails
<1>2. /\ run[r].frames # <<>> /\ Good(Below(r), run[r].stack, HomeOf[r]) /\ Asks(Top(r), run[r].stack)
      /\ ~Top(r).acquired => Held(run[r].frames) = Held(Below(r))
      /\ Top(r).acquired => Held(run[r].frames) = Held(Below(r)) \cup {Top(r).target}
  BY <1>1, AtEntry
<1>3. PICK s : Continues(r, Below(r), s)
  BY DEF first_frame_fails
<1>4. Result(r, Held(Below(r)))
  BY <1>1, <1>3, EntryLeft
<1>5. ASSUME Top(r).acquired
      PROVE  Top(r).target \notin Held(Below(r)) /\ Top(r).target \in Targets /\ Top(r).target # HomeOf[r]
  <2>1. Top(r).target \in Targets \ ToSet(run[r].stack)
    BY <1>2, <1>5 DEF Asks
  <2>2. Held(Below(r)) \subseteq ToSet(run[r].stack) /\ HomeOf[r] \in ToSet(run[r].stack)
    BY <1>2, HeldIsStacked
  <2> QED
    BY <2>1, <2>2
<1> QED
  BY <1>2, <1>4, <1>5

(* A target is acquired, or is owned by another run.                       *)
LEMMA TargetAcquired ==
    ASSUME RunsInShape, NEW r \in Runs, acquire_target(r)
    PROVE  /\ run[r].frames # <<>> /\ Top(r).target \in Targets
           /\ \/ /\ Result(r, Held(run[r].frames) \cup {Top(r).target})
                 /\ Free(r, TableOf(r), Top(r).target)
                 /\ owners' = Taken(r, {TableOf(r)}, Top(r).target)
              \/ Result(r, Held(run[r].frames)) /\ UNCHANGED owners
<1>1. In(r, "entering")
  BY DEF acquire_target, Entering
<1>2. /\ run[r].frames # <<>> /\ Good(Below(r), run[r].stack, HomeOf[r]) /\ Asks(Top(r), run[r].stack)
      /\ \A x : Calm(run[r].frames, Append(Below(r), x))
      /\ ~Top(r).acquired => Held(run[r].frames) = Held(Below(r))
  BY <1>1, AtEntry
<1>3. ~Top(r).acquired /\ Top(r).target \in Targets \ ToSet(run[r].stack)
  BY <1>2 DEF acquire_target, Entering, Asks
<1>4. CASE Free(r, TableOf(r), Top(r).target)
  <2>1. PICK x : x = [Top(r) EXCEPT !.asked = TRUE, !.acquired = TRUE]
    OBVIOUS
  <2>2. PICK w : w = [Top(r) EXCEPT !.asked = TRUE]
    OBVIOUS
  <2>3. {"kind", "acquired", "asked"} \subseteq DOMAIN Top(r) /\ Top(r).kind = "entering"
    BY <1>2 DEF Asks
  <2>4. DOMAIN w = DOMAIN Top(r) /\ w.kind = "entering" /\ w.asked = TRUE /\ w.target = Top(r).target
    BY <2>2, <2>3
  <2>5. x = [w EXCEPT !.acquired = TRUE]
    BY <2>1, <2>2, <2>3
  <2>6. DOMAIN x = DOMAIN w /\ x.kind = "entering" /\ x.asked = TRUE /\ x.target = Top(r).target /\ x.acquired = TRUE
    BY <2>3, <2>4, <2>5
  <2>7. Asks(x, run[r].stack) /\ x.acquired
    BY <1>3, <2>3, <2>4, <2>6 DEF Asks
  <2>8. Continues(r, Append(Below(r), x), "none")
    BY <1>4, <2>1 DEF acquire_target
  <2>9. Only(r, Append(Below(r), x), run[r].stack)
    BY <2>8, RunsAreThere, Continued
  <2>10. Result(r, Held(Below(r)) \cup {x.target})
    BY <1>2, <2>7, <2>9, EntryResult
  <2>11. owners' = Taken(r, {TableOf(r)}, Top(r).target)
    BY <1>4 DEF acquire_target
  <2> QED
    BY <1>2, <1>3, <1>4, <2>6, <2>10, <2>11
<1>5. CASE ~Free(r, TableOf(r), Top(r).target)
  <2>1. Continues(r, Below(r), "permanent") /\ UNCHANGED owners
    BY <1>5 DEF acquire_target
  <2>2. Result(r, Held(Below(r)))
    BY <1>1, <2>1, EntryLeft
  <2> QED
    BY <1>2, <1>3, <2>1, <2>2
<1> QED
  BY <1>4, <1>5

(* The default target is opened, or fails to.                              *)
LEMMA DefaultOpened ==
    ASSUME RunsInShape, NEW r \in Runs, open_default(r)
    PROVE  run[r].frames # <<>> /\ Result(r, Held(run[r].frames))
<1>1. PICK h : h = HomeOf[r]
  OBVIOUS
<1>2. run[r].frames # <<>> /\ Last(run[r].frames).kind = "opening"
  BY DEF open_default, In, Top
<1>3. Shape(run[r], h)
  BY <1>1 DEF RunsInShape
<1>4. ~Good(run[r].frames, run[r].stack, h)
  <2>1. SUFFICES ASSUME Good(run[r].frames, run[r].stack, h) PROVE FALSE
    OBVIOUS
  <2>2. Len(run[r].frames) \in 1..Len(run[r].frames) /\ Last(run[r].frames) = run[r].frames[Len(run[r].frames)]
    BY <1>2, <2>1, Popped DEF Good
  <2>3. FrameOk(run[r].frames, Len(run[r].frames))
    BY <2>1, <2>2 DEF Good
  <2> QED
    BY <1>2, <2>2, <2>3 DEF FrameOk, Plain, IsScope, Handles
<1>5. run[r].frames = Opening /\ run[r].stack = <<>>
  BY <1>2, <1>3, <1>4 DEF Shape, Idle, EntersScope, Asks
<1>6. run[r].at = "running" /\ DOMAIN run = Runs /\ DOMAIN run[r] = RunFields
  BY <1>2, Running DEF RunsInShape, Shape
<1>7. Acquired(<<>>) = {} /\ Held(<<>>) = {} /\ Len(<<>>) = 0 /\ IsSeq(<<>>)
  <2>1. Len(<<>>) = 0 /\ 1..0 = {}
    OBVIOUS
  <2>2. Acquired(<<>>) = {}
    BY <2>1 DEF Acquired
  <2> QED
    BY <2>1, <2>2, OpeningTop DEF Held
<1>8. Held(Opening) = {} /\ Len(Opening) = 1
  <2>1. PICK x : x = [kind |-> "opening"]
    OBVIOUS
  <2>2. IsPush(Opening, <<>>, x) /\ x.kind = "opening"
    BY <2>1, OpeningTop
  <2>3. Held(Opening) = {}
    BY <1>7, <2>2, HeldAbove
  <2> QED
    BY <1>7, <2>2, <2>3 DEF IsPush
<1>9. CASE Continues(r, <<>>, "permanent")
  <2>1. Only(r, <<>>, <<>>)
    BY <1>5, <1>9, RunsAreThere, Continued
  <2>2. Shape(run'[r], h)
    BY <1>6, <1>7, <2>1 DEF Only, Shape, Idle
  <2>3. Calm(Opening, <<>>)
    BY <1>7, <1>8 DEF Calm
  <2> QED
    BY <1>1, <1>2, <1>5, <1>7, <1>8, <2>1, <2>2, <2>3 DEF Only, Result
<1>10. CASE ~Continues(r, <<>>, "permanent")
  <2>1. PICK b : run' = [run EXCEPT ![r].stack = <<h>>, ![r].frames = <<Call, Block(b)>>]
    BY <1>1, <1>10 DEF open_default
  <2>2. PICK S : S = <<h>>
    OBVIOUS
  <2>3. IsSeq(S) /\ S # <<>> /\ Len(S) = 1 /\ S[1] = h
    <3>1. S \in Seq({h}) /\ S # <<>> /\ Len(S) = 1 /\ S[1] = h
      BY <2>2
    <3> QED
      BY <3>1 DEF IsSeq
  <2>4. PICK d : d = [i \in 0..0 |-> 1]
    OBVIOUS
  <2>5. Scoped(<<>>, S, h, d)
    <3>1. d \in [0..0 -> 1..1] /\ d[0] = 1 /\ 0..0 = {0} /\ 1..0 = {}
      BY <2>4
    <3>2. d \in [0..Len(<<>>) -> 1..Len(S)] /\ d[Len(<<>>)] = Len(S)
      BY <1>7, <2>3, <3>1
    <3>3. \A i \in 0..Len(<<>>) : \A j \in 0..Len(<<>>) : i <= j => d[i] <= d[j]
      BY <1>7, <3>1
    <3>4. \A i \in 0..Len(<<>>) : S[d[i]] = h /\ 1..i = {}
      BY <1>7, <2>3, <3>1
    <3>5. 1..Len(<<>>) = {}
      BY <1>7, <3>1
    <3> QED
      BY <3>2, <3>3, <3>4, <3>5 DEF Scoped
  <2>6. Good(<<>>, S, h)
    <3>1. 1..Len(<<>>) = {}
      BY <1>7
    <3> QED
      BY <1>7, <2>3, <2>5, <3>1 DEF Good
  <2>7. PICK y : y = Block(b)
    OBVIOUS
  <2>8. Plain(Call) /\ Plain(y) /\ Call.kind \notin Effects /\ y.kind \notin Effects
    BY <2>7, PlainFrames
  <2>9. Fine(Opening, Append(<<>>, Call), S, h, TRUE)
    BY <1>7, <1>8, <2>6, <2>8, FineAbove
  <2>10. Fine(Opening, Append(Append(<<>>, Call), y), S, h, TRUE)
    BY <2>8, <2>9, FineOnTop
  <2>11. PICK G : G = <<Call, y>>
    OBVIOUS
  <2>12. G = Append(Append(<<>>, Call), y)
    BY <2>11
  <2>13. PICK u : u = [run[r] EXCEPT !.stack = S]
    OBVIOUS
  <2>14. DOMAIN u = RunFields /\ u.stack = S /\ u.at = run[r].at /\ u.listeners = run[r].listeners
    BY <1>6, <2>13 DEF RunFields
  <2>15. PICK z : z = [u EXCEPT !.frames = G]
    OBVIOUS
  <2>16. DOMAIN z = RunFields /\ z.frames = G /\ z.stack = S /\ z.at = run[r].at /\ z.listeners = run[r].listeners
    BY <2>14, <2>15 DEF RunFields
  <2>17. run' = [run EXCEPT ![r] = z]
    BY <1>6, <2>1, <2>2, <2>7, <2>11, <2>13, <2>15
  <2>18. DOMAIN run' = Runs /\ run'[r] = z /\ \A q \in Runs : q # r => run'[q] = run[q]
    BY <1>6, <2>17
  <2>19. Only(r, G, S)
    BY <2>16, <2>18 DEF Only
  <2>20. Fine(Opening, G, S, h, TRUE)
    BY <2>10, <2>12
  <2>21. Result(r, Held(G))
    BY <1>1, <1>2, <1>5, <2>19, <2>20, WorkResult DEF Fine
  <2> QED
    BY <1>2, <1>5, <2>20, <2>21 DEF Fine
<1> QED
  BY <1>9, <1>10

(* A step of the program's thread that concerns nobody else.               *)
LEMMA ComputeResult ==
    ASSUME RunsInShape, NEW r \in Runs, Computes(r)
    PROVE  run[r].frames # <<>> /\ Result(r, Held(run[r].frames))
<1>1. CASE open_default(r) \/ begin_scope(r) \/ enter_refused(r) \/ enter_same(r) \/ enter_again(r)
           \/ first_frame(r)
  BY <1>1, DefaultOpened, ScopeBegun, EntrySteps
<1>2. CASE \/ look_around(r) \/ stopped_after_checkpoint(r) \/ block_ends(r) \/ block_is_left(r)
           \/ evaluation_fails(r) \/ begin_action(r) \/ begin_if(r) \/ raise(r)
  <2>1. Orderly(r)
    BY <1>2, OrderlyBlock
  <2>2. run[r].frames # <<>>
    BY <1>2 DEF look_around, stopped_after_checkpoint, block_ends, block_is_left, evaluation_fails,
       begin_action, begin_if, raise, Begins, MayBegin, In
  <2> QED
    BY <2>1, <2>2, OrderlyResult
<1>3. CASE action_ends(r) \/ wait_ends(r) \/ checkpoint_in_wait(r) \/ action_is_left(r) \/ begin_call(r) \/ call_ends(r)
           \/ begin_loop(r) \/ next_round(r) \/ loop_ends(r)
  <2>1. Orderly(r)
    BY <1>3, OrderlyAction, OrderlyCall, OrderlyLoop
  <2>2. run[r].frames # <<>>
    BY <1>3 DEF action_ends, wait_ends, checkpoint_in_wait, action_is_left, begin_call, call_ends, begin_loop, next_round,
       loop_ends, Begins, MayBegin, In
  <2> QED
    BY <2>1, <2>2, OrderlyResult
<1>4. CASE \/ begin_try(r) \/ begin_retry(r) \/ try_retries(r) \/ interval_ends(r) \/ try_catches(r)
           \/ try_finally(r) \/ try_ends(r) \/ retry_ends(r)
  <2>1. Orderly(r)
    BY <1>4, OrderlyTry, OrderlyRegion
  <2>2. run[r].frames # <<>>
    BY <1>4 DEF begin_try, begin_retry, try_retries, interval_ends, try_catches, try_finally, try_ends,
       retry_ends, Begins, MayBegin, In
  <2> QED
    BY <2>1, <2>2, OrderlyResult
<1>5. CASE \/ begin_listen(r) \/ look_for_message(r) \/ next_listener(r) \/ take_message(r)
           \/ handler_ends(r) \/ dispatch_fails(r)
  <2>1. Orderly(r)
    BY <1>5, OrderlyListen, OrderlyDispatch, OrderlyTake, OrderlyHandler
  <2>2. run[r].frames # <<>>
    BY <1>5 DEF begin_listen, look_for_message, next_listener, take_message, handler_ends, dispatch_fails,
       Begins, MayBegin, In
  <2> QED
    BY <2>1, <2>2, OrderlyResult
<1> QED
  BY <1>1, <1>2, <1>3, <1>4, <1>5 DEF Computes

-----------------------------------------------------------------------------
(* The owners of targets.                                                   *)
OwnersTyped == owners \in [Runs \cup {Host} -> [Targets -> Runs \cup {Nobody}]]

\* In the table of its process a run is named at what it holds and at its default target.
Mine(r, t) == t \in Held(run[r].frames) \/ (run[r].at = "running" /\ t = HomeOf[r])
Owns(r) == \A t \in Targets : (owners[TableOf(r)][t] = r) <=> Mine(r, t)
ProgramBase == RunsInShape /\ OwnersTyped /\ isolated \in BOOLEAN /\ \A r \in Runs : Owns(r)

NamesOwner(q, tables, target) ==
    \A table \in Runs \cup {Host} : \A t \in Targets :
       owners'[table][t] = IF table \in tables /\ t = target THEN q ELSE owners[table][t]

(* The tables after one of them, or two, has named an owner.               *)
LEMMA TakenOwners ==
    ASSUME OwnersTyped, NEW q \in Runs \cup {Nobody}, NEW tables, NEW target, owners' = Taken(q, tables, target)
    PROVE  OwnersTyped' /\ NamesOwner(q, tables, target)
<1>1. owners \in [Runs \cup {Host} -> [Targets -> Runs \cup {Nobody}]]
  BY DEF OwnersTyped
<1>2. \A table \in Runs \cup {Host} :
         owners'[table] = IF table \in tables /\ target \in Targets
                          THEN [owners[table] EXCEPT ![target] = q] ELSE owners[table]
  BY <1>1 DEF Taken
<1>3. DOMAIN owners' = Runs \cup {Host} /\ owners' = [table \in Runs \cup {Host} |-> owners'[table]]
  BY <1>1 DEF Taken
<1>4. ASSUME NEW table \in Runs \cup {Host}
      PROVE  /\ owners'[table] \in [Targets -> Runs \cup {Nobody}]
             /\ \A t \in Targets :
                   owners'[table][t] = IF table \in tables /\ t = target THEN q ELSE owners[table][t]
  <2>1. owners[table] \in [Targets -> Runs \cup {Nobody}]
    BY <1>1
  <2>2. CASE table \in tables /\ target \in Targets
    <3>1. owners'[table] = [owners[table] EXCEPT ![target] = q]
      BY <1>2, <2>2
    <3> QED
      BY <2>1, <2>2, <3>1
  <2>3. CASE ~(table \in tables /\ target \in Targets)
    <3>1. owners'[table] = owners[table]
      BY <1>2, <2>3
    <3> QED
      BY <2>1, <2>3, <3>1
  <2> QED
    BY <2>2, <2>3
<1>5. OwnersTyped'
  BY <1>3, <1>4 DEF OwnersTyped
<1> QED
  BY <1>4, <1>5 DEF NamesOwner

(* The tables after an owner has given back a target.                      *)
LEMMA ReleasedOwners ==
    ASSUME OwnersTyped, NEW q \in Runs, NEW tables, NEW target, owners' = Released(q, tables, target)
    PROVE  /\ OwnersTyped'
           /\ \A table \in Runs \cup {Host} : \A t \in Targets :
                 owners'[table][t] = IF table \in tables /\ t = target /\ owners[table][t] = q
                                     THEN Nobody ELSE owners[table][t]
<1>1. owners \in [Runs \cup {Host} -> [Targets -> Runs \cup {Nobody}]]
  BY DEF OwnersTyped
<1>2. \A table \in Runs \cup {Host} :
         owners'[table] = IF table \in tables /\ target \in Targets /\ owners[table][target] = q
                          THEN [owners[table] EXCEPT ![target] = Nobody] ELSE owners[table]
  BY <1>1 DEF Released
<1>3. DOMAIN owners' = Runs \cup {Host} /\ owners' = [table \in Runs \cup {Host} |-> owners'[table]]
  BY <1>1 DEF Released
<1>4. ASSUME NEW table \in Runs \cup {Host}
      PROVE  /\ owners'[table] \in [Targets -> Runs \cup {Nobody}]
             /\ \A t \in Targets :
                   owners'[table][t] = IF table \in tables /\ t = target /\ owners[table][t] = q
                                       THEN Nobody ELSE owners[table][t]
  <2>1. owners[table] \in [Targets -> Runs \cup {Nobody}]
    BY <1>1
  <2>2. CASE table \in tables /\ target \in Targets /\ owners[table][target] = q
    <3>1. owners'[table] = [owners[table] EXCEPT ![target] = Nobody]
      BY <1>2, <2>2
    <3> QED
      BY <2>1, <2>2, <3>1
  <2>3. CASE ~(table \in tables /\ target \in Targets /\ owners[table][target] = q)
    <3>1. owners'[table] = owners[table]
      BY <1>2, <2>3
    <3> QED
      BY <2>1, <2>3, <3>1
  <2> QED
    BY <2>2, <2>3
<1>5. OwnersTyped'
  BY <1>3, <1>4 DEF OwnersTyped
<1> QED
  BY <1>4, <1>5

(* The tables of the runs.                                                 *)
LEMMA Tables ==
    ASSUME isolated \in BOOLEAN, NEW r \in Runs
    PROVE  /\ TableOf(r) \in Runs \cup {Host} /\ Host \notin Runs /\ Nobody \notin Runs
           /\ \A q \in Runs : q # r => (TableOf(q) = TableOf(r) <=> ~isolated)
           /\ ~isolated => TableOf(r) = Host
           /\ isolated => TableOf(r) = r
BY ProgramRunAssumption DEF TableOf

(* What the runs hold that a step does not concern stays.                  *)
LEMMA OthersKept ==
    ASSUME NEW r \in Runs, NEW X, Result(r, X), UNCHANGED isolated
    PROVE  /\ \A q \in Runs : q # r => \A t : Mine(q, t)' = Mine(q, t)
           /\ \A t : Mine(r, t)' <=> (t \in X \/ (run[r].at = "running" /\ t = HomeOf[r]))
           /\ \A q \in Runs : TableOf(q)' = TableOf(q)
<1>1. \A q \in Runs : q # r => run'[q] = run[q]
  BY DEF Result
<1>2. run'[r].at = run[r].at /\ Held(run'[r].frames) = X
  BY DEF Result
<1>3. \A q \in Runs : TableOf(q)' = TableOf(q)
  BY DEF TableOf
<1>4. ASSUME NEW q \in Runs, q # r, NEW t PROVE Mine(q, t)' = Mine(q, t)
  BY <1>1, <1>4 DEF Mine, Held, Acquired
<1>5. ASSUME NEW t PROVE Mine(r, t)' <=> (t \in X \/ (run[r].at = "running" /\ t = HomeOf[r]))
  <2>1. Mine(r, t)' <=> (t \in Held(run'[r].frames) \/ (run'[r].at = "running" /\ t = HomeOf[r]))
    BY DEF Mine, Held, Acquired
  <2> QED
    BY <1>2, <2>1
<1> QED
  BY <1>3, <1>4, <1>5

(* The shape of the runs is kept.                                          *)
LEMMA ShapesKept == ASSUME RunsInShape, NEW r \in Runs, NEW X, Result(r, X) PROVE RunsInShape'
<1>1. ASSUME NEW q \in Runs PROVE Shape(run'[q], HomeOf[q])
  <2>1. CASE q = r
    BY <2>1 DEF Result
  <2>2. CASE q # r
    BY <2>2 DEF Result, RunsInShape
  <2> QED
    BY <2>1, <2>2
<1> QED
  BY <1>1 DEF RunsInShape, Result

(* A step that leaves the owners alone, and what the run holds.            *)
LEMMA BaseWhenHeld ==
    ASSUME ProgramBase, NEW r \in Runs, Result(r, Held(run[r].frames)), UNCHANGED <<owners, isolated>>
    PROVE  ProgramBase'
<1>1. RunsInShape' /\ OwnersTyped' /\ (isolated \in BOOLEAN)'
  BY ShapesKept DEF ProgramBase, OwnersTyped
<1>2. \A q \in Runs : Owns(q)
  BY DEF ProgramBase
<1>3. \A q \in Runs : \A t \in Targets : Mine(q, t)' <=> Mine(q, t)
  BY OthersKept DEF Mine
<1>4. \A q \in Runs : TableOf(q)' = TableOf(q)
  BY OthersKept
<1>5. \A q \in Runs : Owns(q)'
  BY <1>2, <1>3, <1>4 DEF Owns
<1> QED
  BY <1>1, <1>5 DEF ProgramBase

(* A target is given back.                                                 *)
LEMMA BaseWhenLeft ==
    ASSUME ProgramBase, NEW r \in Runs, NEW X, Result(r, X), UNCHANGED isolated, owners' = OwnersAfter(r),
           ~Top(r).acquired => X = Held(run[r].frames),
           Top(r).acquired => /\ Held(run[r].frames) = X \cup {Top(r).target} /\ Top(r).target \notin X
                              /\ Top(r).target \in Targets /\ Top(r).target # HomeOf[r]
    PROVE  ProgramBase'
<1>1. CASE ~Top(r).acquired
  <2>1. UNCHANGED <<owners, isolated>>
    BY <1>1 DEF OwnersAfter
  <2> QED
    BY <1>1, <2>1, BaseWhenHeld
<1>2. CASE Top(r).acquired
  <2>1. PICK t : t = Top(r).target
    OBVIOUS
  <2>2. owners' = Released(r, {TableOf(r)}, t)
    BY <1>2, <2>1 DEF OwnersAfter
  <2>3. OwnersTyped /\ isolated \in BOOLEAN /\ \A q \in Runs : Owns(q)
    BY DEF ProgramBase
  <2>4. /\ OwnersTyped'
        /\ \A table \in Runs \cup {Host} : \A u \in Targets :
              owners'[table][u] = IF table \in {TableOf(r)} /\ u = t /\ owners[table][u] = r
                                  THEN Nobody ELSE owners[table][u]
    BY <2>2, <2>3, ReleasedOwners
  <2>5. /\ \A q \in Runs : q # r => \A u : Mine(q, u)' = Mine(q, u)
        /\ \A u : Mine(r, u)' <=> (u \in X \/ (run[r].at = "running" /\ u = HomeOf[r]))
        /\ \A q \in Runs : TableOf(q)' = TableOf(q)
    BY OthersKept
  <2>6. \A q \in Runs : TableOf(q) \in Runs \cup {Host} /\ Nobody \notin Runs
    BY <2>3, Tables
  <2>7. ASSUME NEW q \in Runs, NEW u \in Targets
        PROVE  (owners'[TableOf(q)][u] = q) <=> Mine(q, u)'
    <3>1. (owners[TableOf(q)][u] = q) <=> Mine(q, u)
      BY <2>3 DEF Owns
    <3>2. CASE q # r
      <4>1. (owners'[TableOf(q)][u] = q) <=> (owners[TableOf(q)][u] = q)
        BY <2>4, <2>6, <3>2
      <4> QED
        BY <2>5, <3>1, <3>2, <4>1
    <3>3. CASE q = r
      <4>1. Mine(r, u) <=> (u \in X \/ u = t \/ (run[r].at = "running" /\ u = HomeOf[r]))
        BY <1>2, <2>1 DEF Mine
      <4>2. t \notin X /\ t # HomeOf[r]
        BY <1>2, <2>1
      <4>3. owners'[TableOf(r)][u] = IF u = t /\ owners[TableOf(r)][u] = r THEN Nobody ELSE owners[TableOf(r)][u]
        BY <2>4, <2>6
      <4>4. Nobody # r
        BY <2>6
      <4>5. (owners[TableOf(r)][u] = r) <=> Mine(r, u)
        BY <3>1, <3>3
      <4>6. (owners'[TableOf(r)][u] = r) <=> (u # t /\ owners[TableOf(r)][u] = r)
        BY <4>3, <4>4
      <4>7. (owners'[TableOf(r)][u] = r) <=> Mine(r, u)'
        BY <2>5, <4>1, <4>2, <4>5, <4>6
      <4> QED
        BY <3>3, <4>7
    <3> QED
      BY <3>2, <3>3
  <2>8. \A q \in Runs : Owns(q)'
    BY <2>5, <2>7 DEF Owns
  <2>9. RunsInShape'
    BY ShapesKept DEF ProgramBase
  <2> QED
    BY <2>3, <2>4, <2>8, <2>9 DEF ProgramBase
<1> QED
  BY <1>1, <1>2

(* A target that was free is taken.                                        *)
LEMMA BaseWhenTaken ==
    ASSUME ProgramBase, NEW r \in Runs, NEW t \in Targets, Result(r, Held(run[r].frames) \cup {t}),
           UNCHANGED isolated, Free(r, TableOf(r), t), owners' = Taken(r, {TableOf(r)}, t)
    PROVE  ProgramBase'
<1>1. OwnersTyped /\ isolated \in BOOLEAN /\ \A q \in Runs : Owns(q)
  BY DEF ProgramBase
<1>2. r \in Runs \cup {Nobody}
  OBVIOUS
<1>3. /\ OwnersTyped'
      /\ \A table \in Runs \cup {Host} : \A u \in Targets :
            owners'[table][u] = IF table \in {TableOf(r)} /\ u = t THEN r ELSE owners[table][u]
  <2>1. OwnersTyped' /\ NamesOwner(r, {TableOf(r)}, t)
    BY <1>1, <1>2, TakenOwners
  <2> QED
    BY <2>1 DEF NamesOwner
<1>4. /\ \A q \in Runs : q # r => \A u : Mine(q, u)' = Mine(q, u)
      /\ \A u : Mine(r, u)' <=> (u \in Held(run[r].frames) \cup {t} \/ (run[r].at = "running" /\ u = HomeOf[r]))
      /\ \A q \in Runs : TableOf(q)' = TableOf(q)
  BY OthersKept
<1>5. \A q \in Runs : TableOf(q) \in Runs \cup {Host} /\ Nobody \notin Runs
  BY <1>1, Tables
<1>6. owners[TableOf(r)][t] \in {Nobody, r}
  BY DEF Free
<1>7. ASSUME NEW q \in Runs, NEW u \in Targets
      PROVE  (owners'[TableOf(q)][u] = q) <=> Mine(q, u)'
  <2>1. (owners[TableOf(q)][u] = q) <=> Mine(q, u)
    BY <1>1 DEF Owns
  <2>2. owners'[TableOf(q)][u] = IF TableOf(q) = TableOf(r) /\ u = t THEN r ELSE owners[TableOf(q)][u]
    BY <1>3, <1>5
  <2>3. CASE q # r
    <3>1. (owners'[TableOf(q)][u] = q) <=> (owners[TableOf(q)][u] = q)
      BY <1>5, <1>6, <2>2, <2>3
    <3> QED
      BY <1>4, <2>1, <2>3, <3>1
  <2>4. CASE q = r
    <3>1. (owners'[TableOf(r)][u] = r) <=> (u = t \/ owners[TableOf(r)][u] = r)
      BY <2>2, <2>4
    <3>2. Mine(r, u)' <=> (u = t \/ Mine(r, u))
      BY <1>4 DEF Mine
    <3> QED
      BY <2>1, <2>4, <3>1, <3>2
  <2> QED
    BY <2>3, <2>4
<1>8. \A q \in Runs : Owns(q)'
  <2>1. \A q \in Runs : TableOf(q)' = TableOf(q)
    BY <1>4
  <2> QED
    BY <1>7, <2>1 DEF Owns
<1>9. RunsInShape'
  BY ShapesKept DEF ProgramBase
<1> QED
  BY <1>1, <1>3, <1>8, <1>9 DEF ProgramBase

(* A run starts.                                                           *)
LEMMA BaseWhenStarted ==
    ASSUME ProgramBase, NEW r \in Runs, start_program(r), UNCHANGED isolated
    PROVE  /\ ProgramBase'
           /\ Calm(run[r].frames, run'[r].frames) /\ run'[r].listeners = run[r].listeners
           /\ \A q \in Runs : q # r => run'[q] = run[q]
<1>1. OwnersTyped /\ isolated \in BOOLEAN /\ (\A q \in Runs : Owns(q)) /\ RunsInShape
  BY DEF ProgramBase
<1>2. Shape(run[r], HomeOf[r]) /\ DOMAIN run = Runs /\ run[r].at = "absent"
  BY <1>1 DEF RunsInShape, start_program
<1>3. DOMAIN run[r] = RunFields /\ run[r].frames = <<>> /\ run[r].stack = <<>>
  BY <1>2 DEF Shape
<1>4. PICK y : y = [run[r] EXCEPT !.at = "running"]
  OBVIOUS
<1>5. DOMAIN y = RunFields /\ y.at = "running" /\ y.stack = <<>> /\ y.listeners = run[r].listeners
  BY <1>3, <1>4 DEF RunFields
<1>6. PICK w : w = [y EXCEPT !.status = "running"]
  OBVIOUS
<1>7. DOMAIN w = RunFields /\ w.at = "running" /\ w.stack = <<>> /\ w.listeners = run[r].listeners
  BY <1>5, <1>6 DEF RunFields
<1>8. PICK z : z = [w EXCEPT !.frames = Opening]
  OBVIOUS
<1>9. DOMAIN z = RunFields /\ z.at = "running" /\ z.stack = <<>> /\ z.listeners = run[r].listeners
      /\ z.frames = Opening
  BY <1>7, <1>8 DEF RunFields
<1>10. run' = [run EXCEPT ![r] = z]
  BY <1>2, <1>4, <1>6, <1>8 DEF start_program, Opening
<1>11. DOMAIN run' = Runs /\ run'[r] = z /\ \A q \in Runs : q # r => run'[q] = run[q]
  BY <1>2, <1>10
<1>12. Shape(z, HomeOf[r])
  BY <1>9, OpeningTop DEF Shape, Idle
<1>13. RunsInShape'
  <2>1. ASSUME NEW q \in Runs PROVE Shape(run'[q], HomeOf[q])
    BY <1>1, <1>11, <1>12 DEF RunsInShape
  <2> QED
    BY <1>11, <2>1 DEF RunsInShape
<1>14. Calm(run[r].frames, run'[r].frames)
  BY <1>9, <1>11, OpeningTop DEF Calm, Effects
<1>15. Held(<<>>) = {} /\ Held(Opening) = {}
  <2>1. Len(<<>>) = 0 /\ 1..0 = {}
    OBVIOUS
  <2>2. Acquired(<<>>) = {}
    BY <2>1 DEF Acquired
  <2>3. Held(<<>>) = {}
    BY <2>2 DEF Held
  <2>4. PICK x : x = [kind |-> "opening"]
    OBVIOUS
  <2>5. IsPush(Opening, <<>>, x) /\ x.kind = "opening"
    BY <2>4, OpeningTop
  <2> QED
    BY <2>3, <2>5, HeldAbove
<1>16. owners' = Taken(r, {Host, TableOf(r)}, HomeOf[r]) /\ r \in Runs \cup {Nobody}
  BY DEF start_program
<1>17. /\ OwnersTyped'
       /\ \A table \in Runs \cup {Host} : \A u \in Targets :
             owners'[table][u] = IF table \in {Host, TableOf(r)} /\ u = HomeOf[r] THEN r ELSE owners[table][u]
  <2>1. OwnersTyped' /\ NamesOwner(r, {Host, TableOf(r)}, HomeOf[r])
    BY <1>1, <1>16, TakenOwners
  <2> QED
    BY <2>1 DEF NamesOwner
<1>18. HomeOf[r] \in Targets => owners[Host][HomeOf[r]] = Nobody
  BY DEF start_program
<1>19. \A q \in Runs : /\ TableOf(q) \in Runs \cup {Host} /\ TableOf(q)' = TableOf(q)
                       /\ q # r => (TableOf(q) \in {Host, TableOf(r)} => TableOf(q) = Host)
  <2>1. ASSUME NEW q \in Runs PROVE TableOf(q) \in Runs \cup {Host} /\ TableOf(q)' = TableOf(q)
    BY <1>1, Tables DEF TableOf
  <2>2. ASSUME NEW q \in Runs, q # r, TableOf(q) \in {Host, TableOf(r)} PROVE TableOf(q) = Host
    BY <1>1, <2>2, Tables
  <2> QED
    BY <2>1, <2>2
<1>20. ASSUME NEW q \in Runs, NEW u \in Targets PROVE (owners'[TableOf(q)][u] = q) <=> Mine(q, u)'
  <2>1. (owners[TableOf(q)][u] = q) <=> Mine(q, u)
    BY <1>1 DEF Owns
  <2>2. owners'[TableOf(q)][u] = IF TableOf(q) \in {Host, TableOf(r)} /\ u = HomeOf[r] THEN r
                                 ELSE owners[TableOf(q)][u]
    BY <1>17, <1>19
  <2>3. CASE q # r
    <3>1. Mine(q, u)' <=> Mine(q, u)
      BY <1>11, <2>3 DEF Mine, Held, Acquired
    <3>2. Nobody # q
      BY <1>1, Tables
    <3>3. (owners'[TableOf(q)][u] = q) <=> (owners[TableOf(q)][u] = q)
      BY <1>18, <1>19, <2>2, <2>3, <3>2
    <3> QED
      BY <2>1, <3>1, <3>3
  <2>4. CASE q = r
    <3>1. Mine(r, u)' <=> (u \in Held(run'[r].frames) \/ (run'[r].at = "running" /\ u = HomeOf[r]))
      BY DEF Mine, Held, Acquired
    <3>2. Mine(r, u)' <=> u = HomeOf[r]
      BY <1>9, <1>11, <1>15, <3>1
    <3>3. ~Mine(r, u)
      BY <1>2, <1>3, <1>15 DEF Mine
    <3>4. (owners'[TableOf(r)][u] = r) <=> u = HomeOf[r]
      BY <2>1, <2>2, <2>4, <3>3
    <3> QED
      BY <2>4, <3>2, <3>4
  <2> QED
    BY <2>3, <2>4
<1>21. \A q \in Runs : Owns(q)'
  BY <1>19, <1>20 DEF Owns
<1> QED
  BY <1>1, <1>9, <1>11, <1>13, <1>14, <1>17, <1>21 DEF ProgramBase

(* A run ends: nothing is left of it in the tables.                        *)
LEMMA BaseWhenEnded ==
    ASSUME ProgramBase, NEW r \in Runs, end_run(r), UNCHANGED isolated
    PROVE  /\ ProgramBase'
           /\ Calm(run[r].frames, run'[r].frames) /\ run'[r].listeners = run[r].listeners
           /\ \A q \in Runs : q # r => run'[q] = run[q]
<1>1. OwnersTyped /\ isolated \in BOOLEAN /\ (\A q \in Runs : Owns(q)) /\ RunsInShape
  BY DEF ProgramBase
<1>2. run[r].at = "running" /\ run[r].frames = <<>>
  BY DEF end_run
<1>3. DOMAIN run = Runs /\ DOMAIN run[r] = RunFields
  BY <1>1 DEF RunsInShape, Shape
<1>4. PICK y : y = [run[r] EXCEPT !.at = "ended"]
  OBVIOUS
<1>5. DOMAIN y = RunFields /\ y.at = "ended" /\ y.frames = <<>> /\ y.listeners = run[r].listeners
  BY <1>2, <1>3, <1>4 DEF RunFields
<1>6. PICK w : w = [y EXCEPT !.status = OutcomeOf(r)]
  OBVIOUS
<1>7. DOMAIN w = RunFields /\ w.at = "ended" /\ w.frames = <<>> /\ w.listeners = run[r].listeners
  BY <1>5, <1>6 DEF RunFields
<1>8. PICK v : v = [w EXCEPT !.signal = "none"]
  OBVIOUS
<1>9. DOMAIN v = RunFields /\ v.at = "ended" /\ v.frames = <<>> /\ v.listeners = run[r].listeners
  BY <1>7, <1>8 DEF RunFields
<1>10. PICK z : z = [v EXCEPT !.stack = <<>>]
  OBVIOUS
<1>11. DOMAIN z = RunFields /\ z.at = "ended" /\ z.frames = <<>> /\ z.listeners = run[r].listeners
       /\ z.stack = <<>>
  BY <1>9, <1>10 DEF RunFields
<1>12. run' = [run EXCEPT ![r] = z]
  BY <1>3, <1>4, <1>6, <1>8, <1>10 DEF end_run
<1>13. DOMAIN run' = Runs /\ run'[r] = z /\ \A q \in Runs : q # r => run'[q] = run[q]
  BY <1>3, <1>12
<1>14. RunsInShape'
  <2>1. Shape(z, HomeOf[r])
    BY <1>11, OpeningTop DEF Shape, Idle
  <2>2. ASSUME NEW q \in Runs PROVE Shape(run'[q], HomeOf[q])
    BY <1>1, <1>13, <2>1 DEF RunsInShape
  <2> QED
    BY <1>13, <2>2 DEF RunsInShape
<1>15. Calm(run[r].frames, run'[r].frames)
  <2>1. Len(<<>>) = 0
    OBVIOUS
  <2>2. run'[r].frames = <<>>
    BY <1>11, <1>13
  <2> QED
    BY <1>2, <2>1, <2>2 DEF Calm
<1>16. Held(<<>>) = {}
  <2>1. Len(<<>>) = 0 /\ 1..0 = {}
    OBVIOUS
  <2>2. Acquired(<<>>) = {}
    BY <2>1 DEF Acquired
  <2> QED
    BY <2>2 DEF Held
<1>17. OwnersTyped' /\ NamesOwner(Nobody, {Host, TableOf(r)}, HomeOf[r])
  <2>1. owners' = Taken(Nobody, {Host, TableOf(r)}, HomeOf[r]) /\ Nobody \in Runs \cup {Nobody}
    BY DEF end_run
  <2> QED
    BY <1>1, <2>1, TakenOwners
<1>18. \A q \in Runs : /\ TableOf(q) \in Runs \cup {Host} /\ TableOf(q)' = TableOf(q) /\ Nobody # q
                       /\ q # r => (TableOf(q) \in {Host, TableOf(r)} => TableOf(q) = TableOf(r))
  <2>1. ASSUME NEW q \in Runs PROVE TableOf(q) \in Runs \cup {Host} /\ TableOf(q)' = TableOf(q) /\ Nobody # q
    BY <1>1, Tables DEF TableOf
  <2>2. ASSUME NEW q \in Runs, q # r, TableOf(q) \in {Host, TableOf(r)} PROVE TableOf(q) = TableOf(r)
    <3>1. ~isolated
      BY <1>1, <2>2, Tables
    <3> QED
      BY <1>1, <3>1, Tables
  <2> QED
    BY <2>1, <2>2
<1>19. ASSUME NEW q \in Runs, NEW u \in Targets PROVE (owners'[TableOf(q)][u] = q) <=> Mine(q, u)'
  <2>1. (owners[TableOf(q)][u] = q) <=> Mine(q, u)
    BY <1>1 DEF Owns
  <2>2. owners'[TableOf(q)][u] = IF TableOf(q) \in {Host, TableOf(r)} /\ u = HomeOf[r] THEN Nobody
                                 ELSE owners[TableOf(q)][u]
    BY <1>17, <1>18 DEF NamesOwner
  <2>3. (owners[TableOf(r)][u] = r) <=> u = HomeOf[r]
    BY <1>1, <1>2, <1>16 DEF Owns, Mine
  <2>4. CASE q # r
    <3>1. Mine(q, u)' <=> Mine(q, u)
      BY <1>13, <2>4 DEF Mine, Held, Acquired
    <3>2. (owners'[TableOf(q)][u] = q) <=> (owners[TableOf(q)][u] = q)
      BY <1>18, <2>2, <2>3, <2>4
    <3> QED
      BY <2>1, <3>1, <3>2
  <2>5. CASE q = r
    <3>1. Mine(r, u)' <=> (u \in Held(run'[r].frames) \/ (run'[r].at = "running" /\ u = HomeOf[r]))
      BY DEF Mine, Held, Acquired
    <3>2. ~Mine(r, u)'
      BY <1>11, <1>13, <1>16, <3>1
    <3>3. owners'[TableOf(r)][u] # r
      BY <1>18, <2>2, <2>3, <2>5
    <3> QED
      BY <2>5, <3>2, <3>3
  <2> QED
    BY <2>4, <2>5
<1>20. \A q \in Runs : Owns(q)'
  <2>1. \A q \in Runs : TableOf(q)' = TableOf(q)
    BY <1>18
  <2> QED
    BY <1>19, <2>1 DEF Owns
<1> QED
  BY <1>1, <1>11, <1>13, <1>14, <1>15, <1>17, <1>20 DEF ProgramBase

(* A run is asked to end, or is sent a message.                            *)
LEMMA AskedResult ==
    ASSUME RunsInShape, NEW r \in Runs, cancel_run(r) \/ message_arrives(r)
    PROVE  /\ Result(r, Held(run[r].frames)) /\ run'[r].frames = run[r].frames
<1>1. DOMAIN run = Runs /\ DOMAIN run[r] = RunFields /\ Shape(run[r], HomeOf[r])
  BY DEF RunsInShape, Shape
<1>2. PICK c : c = [run[r] EXCEPT !.cancel = TRUE]
  OBVIOUS
<1>3. PICK m : m = [run[r] EXCEPT !.inbox = @ \cup {arrived + 1}]
  OBVIOUS
<1>4. PICK z : (z = c \/ z = m) /\ run' = [run EXCEPT ![r] = z]
  BY <1>1, <1>2, <1>3 DEF cancel_run, message_arrives
<1>5. /\ DOMAIN z = RunFields /\ z.at = run[r].at /\ z.frames = run[r].frames /\ z.stack = run[r].stack
      /\ z.listeners = run[r].listeners
  <2>1. CASE z = c
    BY <1>1, <1>2, <2>1 DEF RunFields
  <2>2. CASE z = m
    BY <1>1, <1>3, <2>2 DEF RunFields
  <2> QED
    BY <1>4, <2>1, <2>2
<1>6. DOMAIN run' = Runs /\ run'[r] = z /\ \A q \in Runs : q # r => run'[q] = run[q]
  BY <1>1, <1>4
<1>7. Shape(z, HomeOf[r])
  BY <1>1, <1>5 DEF Shape, Idle, EntersScope
<1>8. Calm(run[r].frames, run[r].frames)
  <2>1. Len(run[r].frames) \in Nat
    BY <1>1 DEF Shape, IsSeq
  <2> QED
    BY <2>1 DEF Calm
<1> QED
  BY <1>5, <1>6, <1>7, <1>8 DEF Result

(* Nothing has started at first.                                           *)
LEMMA ProgramBaseInit == ASSUME ExecutionInit PROVE ProgramBase
<1>1. /\ DOMAIN run = Runs /\ \A r \in Runs : run[r] = NotStarted
      /\ owners = [t \in Runs \cup {Host} |-> [target \in Targets |-> Nobody]]
      /\ isolated \in BOOLEAN
  BY DEF ExecutionInit
<1>2. /\ DOMAIN NotStarted = RunFields /\ NotStarted.at = "absent" /\ NotStarted.frames = <<>>
      /\ NotStarted.stack = <<>>
  BY DEF NotStarted, RunFields
<1>3. RunsInShape
  BY <1>1, <1>2, OpeningTop DEF RunsInShape, Shape, Idle
<1>4. OwnersTyped
  BY <1>1 DEF OwnersTyped
<1>5. Held(<<>>) = {}
  <2>1. Len(<<>>) = 0 /\ 1..0 = {}
    OBVIOUS
  <2>2. Acquired(<<>>) = {}
    BY <2>1 DEF Acquired
  <2> QED
    BY <2>2 DEF Held
<1>6. ASSUME NEW r \in Runs, NEW t \in Targets PROVE owners[TableOf(r)][t] # r /\ ~Mine(r, t)
  <2>1. owners[TableOf(r)][t] # r
    BY <1>1, Tables
  <2>2. ~Mine(r, t)
    BY <1>1, <1>2, <1>5 DEF Mine
  <2> QED
    BY <2>1, <2>2
<1> QED
  BY <1>1, <1>3, <1>4, <1>6 DEF ProgramBase, Owns

\* What the steps keep and do: the shape of the runs, and nothing is begun once cancelled.
Stopping(r) ==
    run[r].cancel => Calm(run[r].frames, run'[r].frames) /\ run'[r].listeners = run[r].listeners

(* A run that a step does not concern.                                     *)
LEMMA OtherStops ==
    ASSUME RunsInShape, NEW q \in Runs, run'[q] = run[q] PROVE Stopping(q)
<1>1. Len(run[q].frames) \in Nat
  BY DEF RunsInShape, Shape, IsSeq
<1> QED
  BY <1>1 DEF Stopping, Calm

(* Every step.                                                             *)
LEMMA ProgramStep ==
    ASSUME ProgramBase, [ExecutionNext]_executionVars
    PROVE  ProgramBase' /\ \A q \in Runs : Stopping(q)
<1>1. RunsInShape
  BY DEF ProgramBase
<1>2. ASSUME NEW r \in Runs, NEW X, Result(r, X) PROVE \A q \in Runs : Stopping(q)
  <2>1. Stopping(r)
    BY <1>2 DEF Result, Stopping
  <2>2. ASSUME NEW q \in Runs, q # r PROVE Stopping(q)
    BY <1>1, <1>2, <2>2, OtherStops DEF Result
  <2> QED
    BY <2>1, <2>2
<1>3. CASE UNCHANGED executionVars
  <2>1. run' = run /\ owners' = owners /\ isolated' = isolated
    BY <1>3 DEF executionVars
  <2>2. \A q \in Runs : Stopping(q)
    BY <1>1, <2>1, OtherStops
  <2>3. ProgramBase'
    <3>1. RunsInShape' /\ OwnersTyped'
      BY <2>1 DEF ProgramBase, RunsInShape, OwnersTyped
    <3>2. ASSUME NEW q \in Runs PROVE Owns(q)'
      <4>1. Owns(q)
        BY DEF ProgramBase
      <4> QED
        BY <2>1, <4>1 DEF Owns, Mine, TableOf, Held, Acquired
    <3> QED
      BY <2>1, <3>1, <3>2 DEF ProgramBase
  <2> QED
    BY <2>2, <2>3
<1>4. ASSUME NEW r \in Runs, UNCHANGED isolated, Computes(r) \/ cancel_run(r) \/ message_arrives(r), UNCHANGED owners
      PROVE  ProgramBase' /\ \A q \in Runs : Stopping(q)
  <2>1. Result(r, Held(run[r].frames))
    BY <1>1, <1>4, ComputeResult, AskedResult
  <2> QED
    BY <1>2, <1>4, <2>1, BaseWhenHeld
<1>5. ASSUME NEW r \in Runs, UNCHANGED isolated, Exchanges(r)
      PROVE  ProgramBase' /\ \A q \in Runs : Stopping(q)
  <2>1. CASE start_program(r) \/ end_run(r)
    <3>1. /\ ProgramBase' /\ Calm(run[r].frames, run'[r].frames) /\ run'[r].listeners = run[r].listeners
          /\ \A q \in Runs : q # r => run'[q] = run[q]
      BY <1>5, <2>1, BaseWhenStarted, BaseWhenEnded
    <3>2. \A q \in Runs : Stopping(q)
      BY <1>1, <3>1, OtherStops DEF Stopping
    <3> QED
      BY <3>1, <3>2
  <2>2. CASE acquire_target(r)
    <3>1. Top(r).target \in Targets
      BY <1>1, <2>2, TargetAcquired
    <3>2. CASE /\ Result(r, Held(run[r].frames) \cup {Top(r).target})
               /\ Free(r, TableOf(r), Top(r).target)
               /\ owners' = Taken(r, {TableOf(r)}, Top(r).target)
      BY <1>2, <1>5, <3>1, <3>2, BaseWhenTaken
    <3>3. CASE Result(r, Held(run[r].frames)) /\ UNCHANGED owners
      BY <1>2, <1>5, <3>3, BaseWhenHeld
    <3> QED
      BY <1>1, <2>2, <3>2, <3>3, TargetAcquired
  <2>3. CASE first_frame_fails(r) \/ scope_ends(r)
    <3>1. PICK X : /\ Result(r, X)
                   /\ ~Top(r).acquired => X = Held(run[r].frames)
                   /\ Top(r).acquired =>
                        /\ Held(run[r].frames) = X \cup {Top(r).target} /\ Top(r).target \notin X
                        /\ Top(r).target \in Targets /\ Top(r).target # HomeOf[r]
      BY <1>1, <2>3, EntryFailed, ScopeLeft
    <3>2. owners' = OwnersAfter(r)
      BY <2>3 DEF first_frame_fails, scope_ends
    <3> QED
      BY <1>2, <1>5, <3>1, <3>2, BaseWhenLeft
  <2> QED
    BY <1>5, <2>1, <2>2, <2>3 DEF Exchanges
<1>6. ASSUME ExecutionNext PROVE ProgramBase' /\ \A q \in Runs : Stopping(q)
  <2>1. UNCHANGED isolated
    BY <1>6 DEF ExecutionNext
  <2>2. PICK r \in Runs : \/ (Computes(r) \/ cancel_run(r) \/ message_arrives(r)) /\ UNCHANGED owners
                          \/ Exchanges(r)
    BY <1>6 DEF ExecutionNext
  <2> QED
    BY <1>4, <1>5, <2>1, <2>2
<1> QED
  BY <1>3, <1>6

(* A run in shape: its current target is that of its innermost scope, and   *)
(* it only holds targets.                                                   *)
LEMMA ShapeFollows ==
    ASSUME NEW x, NEW h, Shape(x, h)
    PROVE  /\ Held(x.frames) \subseteq Targets
           /\ x.stack # <<>> /\ (\A i \in 1..Len(x.frames) : x.frames[i].kind # "scope") => Last(x.stack) = h
           /\ \A i \in 1..Len(x.frames) :
                 x.frames[i].kind = "scope" /\ (\A j \in 1..Len(x.frames) : x.frames[j].kind = "scope" => j <= i)
                 => x.stack # <<>> /\ Last(x.stack) = x.frames[i].target
<1>1. ASSUME NEW F, NEW S, Good(F, S, h) PROVE Held(F) \subseteq Targets /\ S # <<>>
  <2>1. ASSUME NEW i \in Acquired(F) PROVE F[i].target \in Targets
    <3>1. i \in 1..Len(F) /\ F[i].kind \in {"scope", "entering"} /\ F[i].acquired
      BY DEF Acquired
    <3>2. FrameOk(F, i)
      BY <1>1, <3>1 DEF Good
    <3> QED
      BY <3>1, <3>2 DEF FrameOk, Plain, IsScope, Handles
  <2> QED
    BY <1>1, <2>1 DEF Held, Good
<1>2. CASE Idle(x)
  <2>1. \A i \in 1..Len(x.frames) : x.frames[i].kind = "opening"
    <3>1. PICK o : o = [kind |-> "opening"]
      OBVIOUS
    <3>2. IsPush(Opening, <<>>, o) /\ o.kind = "opening" /\ Len(<<>>) = 0 /\ 1..0 = {}
      BY <3>1, OpeningTop
    <3>3. Len(Opening) = 1 /\ Opening[1] = o /\ 1..1 = {1}
      BY <3>2 DEF IsPush
    <3> QED
      BY <1>2, <3>2, <3>3 DEF Idle
  <2>2. Held(x.frames) = {}
    BY <2>1 DEF Held, Acquired
  <2> QED
    BY <1>2, <2>1, <2>2 DEF Idle
<1>3. CASE Good(x.frames, x.stack, h)
  BY <1>1, <1>3, InnermostIsCurrent
<1>4. CASE EntersScope(x, h)
  <2>1. PICK F : F = x.frames
    OBVIOUS
  <2>2. PICK B : B = Front(F)
    OBVIOUS
  <2>3. F # <<>> /\ Asks(Last(F), x.stack) /\ Good(B, x.stack, h) /\ IsSeq(F)
    BY <1>4, <2>1, <2>2 DEF EntersScope, Shape
  <2>4. IsPush(F, B, Last(F))
    BY <2>2, <2>3, PoppedIsUnder
  <2>5. /\ Len(B) \in Nat /\ Len(F) = Len(B) + 1 /\ F[Len(F)].kind = "entering"
        /\ \A i \in 1..Len(B) : i \in 1..Len(F) /\ F[i] = B[i]
    BY <2>3, <2>4 DEF IsPush, Asks
  <2>6. \A i \in 1..Len(F) : i \in 1..Len(B) \/ i = Len(F)
    BY <2>5
  <2>7. \A i \in 1..Len(F) : F[i].kind = "scope" => i \in 1..Len(B)
    BY <2>5, <2>6
  <2>8. Held(F) \subseteq Targets
    <3>1. Held(B) \subseteq Targets
      BY <1>1, <2>3
    <3>2. Last(F).acquired \in BOOLEAN /\ (Last(F).acquired => Last(F).target \in Targets)
      BY <2>3 DEF Asks
    <3>3. Held(F) = Held(B) \/ (Last(F).acquired /\ Held(F) = Held(B) \cup {Last(F).target})
      BY <2>4, <3>2, HeldAbove
    <3> QED
      BY <3>1, <3>2, <3>3
  <2>9. ASSUME \A i \in 1..Len(F) : F[i].kind # "scope" PROVE Last(x.stack) = h
    <3>1. \A i \in 1..Len(B) : B[i].kind # "scope"
      BY <2>5, <2>9
    <3> QED
      BY <2>3, <3>1, InnermostIsCurrent
  <2>10. ASSUME NEW i \in 1..Len(F), F[i].kind = "scope", \A j \in 1..Len(F) : F[j].kind = "scope" => j <= i
         PROVE  Last(x.stack) = F[i].target
    <3>1. i \in 1..Len(B) /\ B[i].kind = "scope" /\ B[i] = F[i]
      BY <2>5, <2>7, <2>10
    <3>2. \A j \in 1..Len(B) : B[j].kind = "scope" => j <= i
      BY <2>5, <2>10
    <3>3. Last(x.stack) = B[i].target
      BY <2>3, <3>1, <3>2, InnermostIsCurrent
    <3> QED
      BY <3>1, <3>3
  <2> QED
    BY <1>1, <2>1, <2>3, <2>8, <2>9, <2>10
<1> QED
  BY <1>2, <1>3, <1>4 DEF Shape

(* The targets of the runs, where their frames are in shape.               *)
LEMMA ScopesFollow == ASSUME ProgramBase PROVE TargetsFollowScopes
<1> SUFFICES ASSUME NEW r \in Runs
             PROVE  LET frames == run[r].frames
                        scopes == {i \in DOMAIN frames : frames[i].kind = "scope"}
                        holding == {f \in ToSet(frames) : f.kind \in {"scope", "entering"} /\ f.acquired}
                        own == IF run[r].at = "running" THEN {HomeOf[r]} \ {NoTarget} ELSE {}
                    IN /\ {t \in Targets : owners[TableOf(r)][t] = r} = {f.target : f \in holding} \cup own
                       /\ run[r].stack # <<>> /\ scopes = {} => Last(run[r].stack) = HomeOf[r]
                       /\ \A i \in scopes : (\A j \in scopes : j <= i) =>
                             run[r].stack # <<>> /\ Last(run[r].stack) = frames[i].target
  BY DEF TargetsFollowScopes
<1>1. PICK x : x = run[r]
  OBVIOUS
<1>2. PICK h : h = HomeOf[r]
  OBVIOUS
<1>3. PICK F : F = x.frames
  OBVIOUS
<1>4. Shape(x, h) /\ Owns(r)
  BY <1>1, <1>2 DEF ProgramBase, RunsInShape
<1>5. PICK Y : F \in Seq(Y)
  BY <1>3, <1>4 DEF Shape, IsSeq
<1>6. DOMAIN F = 1..Len(F) /\ ToSet(F) = {F[i] : i \in 1..Len(F)}
  BY <1>5 DEF ToSet
<1> DEFINE holding == {f \in ToSet(F) : f.kind \in {"scope", "entering"} /\ f.acquired}
<1>7. {f.target : f \in holding} = Held(F)
  BY <1>6 DEF Held, Acquired
<1>8. Held(F) \subseteq Targets
  BY <1>3, <1>4, ShapeFollows
<1>9. h \in Targets \cup {NoTarget} /\ NoTarget \notin Targets
  BY <1>2, ProgramRunAssumption
<1>10. {t \in Targets : owners[TableOf(r)][t] = r}
         = Held(F) \cup (IF x.at = "running" THEN {h} \ {NoTarget} ELSE {})
  <2>1. \A t \in Targets : (owners[TableOf(r)][t] = r) <=> (t \in Held(F) \/ (x.at = "running" /\ t = h))
    BY <1>1, <1>2, <1>3, <1>4 DEF Owns, Mine
  <2> QED
    BY <1>8, <1>9, <2>1
<1>11. /\ x.stack # <<>> /\ (\A i \in 1..Len(F) : F[i].kind # "scope") => Last(x.stack) = h
       /\ \A i \in 1..Len(F) :
             F[i].kind = "scope" /\ (\A j \in 1..Len(F) : F[j].kind = "scope" => j <= i)
             => x.stack # <<>> /\ Last(x.stack) = F[i].target
  BY <1>3, <1>4, ShapeFollows
<1> DEFINE scopes == {i \in DOMAIN F : F[i].kind = "scope"}
<1>12. x.stack # <<>> /\ scopes = {} => Last(x.stack) = h
  BY <1>6, <1>11
<1>13. \A i \in scopes : (\A j \in scopes : j <= i) => x.stack # <<>> /\ Last(x.stack) = F[i].target
  BY <1>6, <1>11
<1> QED
  BY <1>1, <1>2, <1>3, <1>7, <1>10, <1>12, <1>13

(* However a program leaves its scopes - by a return, a break, an error, a  *)
(* retry, a failed first frame, a cancellation - its current target is that *)
(* of the innermost one, and it owns its default target and what the scopes *)
(* it is in have acquired, no more: for every program, nesting, set of      *)
(* targets and number of runs, in one process or in workers.                *)
THEOREM ScopesOwnTheirTargets == ExecutionSpec => []TargetsFollowScopes
<1>1. ExecutionInit => ProgramBase
  BY ProgramBaseInit
<1>2. ProgramBase /\ [ExecutionNext]_executionVars => ProgramBase'
  BY ProgramStep
<1>3. ProgramBase => TargetsFollowScopes
  BY ScopesFollow
<1> QED
  BY <1>1, <1>2, <1>3, PTL DEF ExecutionSpec

(* A cancelled run begins no action, enters no scope and registers no       *)
(* listener.                                                                *)
THEOREM CancelledRunsStop == ExecutionSpec => CancelStops
<1>1. ExecutionInit => ProgramBase
  BY ProgramBaseInit
<1>2. ProgramBase /\ [ExecutionNext]_executionVars => ProgramBase'
  BY ProgramStep
<1>3. ProgramBase /\ [ExecutionNext]_executionVars =>
         [\A r \in Runs : run[r].cancel =>
            /\ Len(run'[r].frames) > Len(run[r].frames) => Last(run'[r].frames).kind \notin Effects
            /\ run'[r].listeners = run[r].listeners]_executionVars
  BY ProgramStep DEF Stopping, Calm
<1> QED
  BY <1>1, <1>2, <1>3, PTL DEF ExecutionSpec, CancelStops
=============================================================================
