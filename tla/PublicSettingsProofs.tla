------------------------ MODULE PublicSettingsProofs ------------------------
(***************************************************************************)
(* Theorems about PublicSettings, for every offer of the window and every  *)
(* number of commands, mishaps and prompts that stay.                      *)
(*                                                                         *)
(* What a command has done is told by the tasks that are left: the tasks   *)
(* of the secrets come first, then the readings, and the steps of the file *)
(* last (Ordered).  So FileKept says what the disk holds by counting the   *)
(* tasks that are left, and SecretKept what the keyring holds of a secret  *)
(* by whether its change is still to come, under way or past.              *)
(***************************************************************************)
EXTENDS PublicSettings, FiniteSetTheorems, TLAPS

-----------------------------------------------------------------------------
(* The tasks that are left.                                                *)

Mutations == {"update", "delete"}
FileStepsOf == IF Keeps THEN 5 ELSE 3

\* The place of a step of the file, counted from the end as the tasks are left.
FileTaskLeft(n) ==
  IF Keeps THEN CASE n = 4 -> "write" [] n = 3 -> "sync" [] n = 2 -> "rename" [] n = 1 -> "secure" [] OTHER -> "flush"
  ELSE CASE n = 2 -> "write" [] n = 1 -> "sync" [] OTHER -> "rename"

Places(q) ==
  \A i \in 1 .. Len(q) : IF Len(q) - i < FileStepsOf THEN q[i].do = FileTaskLeft(Len(q) - i) ELSE q[i].do \notin FileTasks
NoFile(q) == \A i \in 1 .. Len(q) : q[i].do \notin FileTasks

\* The changes come before everything else, and each at most once.
ChangesFirst(q, changes) ==
  /\ \A i \in 1 .. Len(q) : q[i].do \in Mutations => q[i].secret \in Secret /\ q[i].do = changes[q[i].secret]
  /\ \A i, j \in 1 .. Len(q) :
       i < j /\ q[j].do \in Mutations => q[i].do \in Mutations /\ q[i].secret # q[j].secret
  /\ \A i \in 1 .. Len(q) : q[i].do \in {"presence", "read"} => q[i].secret \in Secret

Ordered(c) ==
  /\ c.kind = "save" /\ ~c.failed => Places(c.todo)
  /\ c.kind # "save" => NoFile(c.todo) /\ c.changes = Kept
  /\ c.kind # "launch" => \A i \in 1 .. Len(c.todo) : c.todo[i].do # "load"
  /\ ChangesFirst(c.todo, c.changes)
  /\ ~Keeps => c.changes = Kept /\ \A i \in 1 .. Len(c.todo) : c.todo[i].do \in FileTasks \cup {"load"}

\* The native call under way is the one of the next task.
Serves ==
  native # None =>
    /\ command # None /\ command.todo # <<>>
    /\ Head(command.todo).secret = native.secret /\ native.value = command.number
    /\ Head(command.todo).do = (IF native.op = "add" THEN "update" ELSE native.op)

Tasks == (command # None => Ordered(command)) /\ Serves

-----------------------------------------------------------------------------
(* The file.                                                               *)

Begun == MaxCommand - left.command

SaveProgress(c) ==
  LET n == Len(c.todo)  m == FileStepsOf IN
  /\ n < m /\ n >= m - 2 => disk.temporary # None /\ disk.temporary.stamp = c.number /\ disk.temporary.whole
  /\ n = m - 2 => disk.temporary.synced
  /\ n <= m - 3 => disk.file.stamp = c.number /\ disk.file.whole
  /\ n = 0 => disk.durable = disk.file \/ ~Keeps

FileKept ==
  /\ disk.file.stamp <= Begun /\ disk.durable.stamp <= Begun /\ disk.file.synced /\ disk.durable.synced
  /\ owed # None =>
       /\ disk.file.whole /\ owed <= disk.file.stamp /\ manager.settings <= disk.file.stamp
       /\ disk.durable.whole /\ (Keeps => owed <= disk.durable.stamp)
  /\ ~Keeps => owed # None
  /\ ~manager.up => manager.settings = 0
  /\ command # None =>
       /\ command.kind = "save" => command.number = Begun
       /\ command.kind = "launch" => ~manager.up /\ (owed # None => command.settings <= disk.file.stamp)
       /\ command.kind = "save" /\ ~command.failed => SaveProgress(command)

-----------------------------------------------------------------------------
(* The keyring.                                                            *)

\* The steps of a method, those it ends with, and the calls that are left of it, on any system.
StepsOf(op) ==
  CASE op = "update"   -> {"unlock", "search", "create", "replace"}
    [] op = "add"      -> {"unlock", "create", "insert"}
    [] op = "delete"   -> {"unlock", "search", "open", "delete", "remove"}
    [] op = "presence" -> {"unlock", "search"}
    [] op = "read"     -> {"unlock", "search", "open", "get"}
LastOf(op) ==
  CASE op = "update" -> {"create", "replace"} [] op = "add" -> {"create", "insert"} [] op = "delete" -> {"delete", "remove"}
    [] op = "presence" -> {"search"} [] op = "read" -> {"get"}
PlanOf(op, p) ==
  /\ Len(p) > 0
  /\ \A i \in 1 .. Len(p) : p[i] \in StepsOf(op) /\ (p[i] \in LastOf(op) <=> i = Len(p))
  /\ \A i \in 1 .. Len(p) : i > 1 /\ p[i] \in {"open", "delete"} => p[i - 1] \in {"search", "open"}

Results(op) == IF op = "presence" THEN {"present", "absent", "failed"} ELSE {"ok", "not found", "failed"}

Planned ==
  /\ native # None /\ native.result = None => PlanOf(native.op, native.plan)
  /\ native # None => native.result \in Results(native.op) \cup {None}
  /\ \A n \in orphans : PlanOf(n.op, n.plan) /\ n.result = None /\ n.secret \in disturbed

\* What is in the place of a secret while its change, from base, is under way.
DuringChange(n, base, items) ==
  CASE n.op = "delete" ->
         /\ items \subseteq base
         /\ n.result = None /\ Head(n.plan) \in {"open", "delete"} => n.found = items /\ items # {}
         /\ n.result \in {"ok", "not found"} => items = {}
    [] n.op # "delete" ->
         IF n.result \in {None, "not found"} THEN items = base
         ELSE /\ items = base \/ items \in Created(base, n.value)
              /\ n.result = "ok" => items \in Created(base, n.value)

Pending(s) ==
  command.changes[s] # "keep" /\ \E i \in 1 .. Len(command.todo) : command.todo[i].do \in Mutations /\ command.todo[i].secret = s
Changing(s) == native # None /\ native.secret = s /\ native.op \in {"update", "add", "delete"}

Follows(s, base) ==
  CASE Changing(s) -> DuringChange(native, base, keyring[s])
    [] ~Changing(s) /\ Pending(s) -> keyring[s] = base
    [] OTHER -> IF command.failed THEN keyring[s] \in MayLeave(command.changes[s], command.number, base)
                ELSE keyring[s] \in Effects(command.changes[s], command.number, base)

Tells(reading, s) == reading # "unknown" => (reading = "present" <=> keyring[s] # {})

SecretKept(s) ==
  /\ command = None => keyring[s] \in allowed[s]
  /\ command # None => \E base \in allowed[s] : Follows(s, base)
  /\ command = None \/ command.kind = "use" => Tells(manager.presence[s], s)
  /\ command # None =>
       /\ Tells(command.readings[s], s)
       /\ command.readings[s] # "unknown" => \A i \in 1 .. Len(command.todo) : command.todo[i].do \notin Mutations
  /\ native # None /\ native.secret = s /\ native.op = "presence" /\ native.result \in {"present", "absent"}
       => Tells(native.result, s)

SecretsKept == \A s \in Secret \ disturbed : SecretKept(s)

\* Only a launch runs while the manager is not up, which shows nothing then.
Down == ~manager.up => manager.presence = Unknown /\ (command # None => command.kind = "launch")

Inv == TypeOK /\ Tasks /\ FileKept /\ Planned /\ SecretsKept /\ Down

-----------------------------------------------------------------------------
(* Native calls.                                                           *)

Ops == {"update", "add", "delete", "presence", "read"}

LEMMA NoPlan == <<>> \in Seq(Step)
OBVIOUS

(* Every system's row of calls is one of its method. *)
LEMMA NewPlan ==
  ASSUME host.system \in System, NEW op \in Ops
  PROVE  Plan(op) \in Seq(Step) /\ PlanOf(op, Plan(op))
<1>1. CASE host.system = "linux"
  <2>1. Plan(op) = LinuxPlan(op)
    BY <1>1 DEF Plan
  <2>2. CASE op = "update"
    BY <2>1, <2>2 DEF LinuxPlan, PlanOf, StepsOf, LastOf, Step
  <2>3. CASE op = "add"
    BY <2>1, <2>3 DEF LinuxPlan, PlanOf, StepsOf, LastOf, Step
  <2>4. CASE op = "delete"
    BY <2>1, <2>4 DEF LinuxPlan, PlanOf, StepsOf, LastOf, Step
  <2>5. CASE op = "presence"
    BY <2>1, <2>5 DEF LinuxPlan, PlanOf, StepsOf, LastOf, Step
  <2>6. CASE op = "read"
    BY <2>1, <2>6 DEF LinuxPlan, PlanOf, StepsOf, LastOf, Step
  <2> QED
    BY <2>2, <2>3, <2>4, <2>5, <2>6 DEF Ops
<1>2. CASE host.system = "windows"
  <2>1. Plan(op) = WindowsPlan(op)
    BY <1>2 DEF Plan
  <2>2. CASE op = "update"
    BY <2>1, <2>2 DEF WindowsPlan, PlanOf, StepsOf, LastOf, Step
  <2>3. CASE op = "add"
    BY <2>1, <2>3 DEF WindowsPlan, PlanOf, StepsOf, LastOf, Step
  <2>4. CASE op = "delete"
    BY <2>1, <2>4 DEF WindowsPlan, PlanOf, StepsOf, LastOf, Step
  <2>5. CASE op = "presence"
    BY <2>1, <2>5 DEF WindowsPlan, PlanOf, StepsOf, LastOf, Step
  <2>6. CASE op = "read"
    BY <2>1, <2>6 DEF WindowsPlan, PlanOf, StepsOf, LastOf, Step
  <2> QED
    BY <2>2, <2>3, <2>4, <2>5, <2>6 DEF Ops
<1>3. CASE host.system = "darwin"
  <2>1. Plan(op) = DarwinPlan(op)
    BY <1>3 DEF Plan
  <2>2. CASE op = "update"
    BY <2>1, <2>2 DEF DarwinPlan, PlanOf, StepsOf, LastOf, Step
  <2>3. CASE op = "add"
    BY <2>1, <2>3 DEF DarwinPlan, PlanOf, StepsOf, LastOf, Step
  <2>4. CASE op = "delete"
    BY <2>1, <2>4 DEF DarwinPlan, PlanOf, StepsOf, LastOf, Step
  <2>5. CASE op = "presence"
    BY <2>1, <2>5 DEF DarwinPlan, PlanOf, StepsOf, LastOf, Step
  <2>6. CASE op = "read"
    BY <2>1, <2>6 DEF DarwinPlan, PlanOf, StepsOf, LastOf, Step
  <2> QED
    BY <2>2, <2>3, <2>4, <2>5, <2>6 DEF Ops
<1> QED
  BY <1>1, <1>2, <1>3 DEF System

(* What comes first in a plan, and what is left after it. *)
LEMMA PlanSteps ==
  ASSUME NEW op \in Ops, NEW p \in Seq(Step), PlanOf(op, p)
  PROVE  /\ Head(p) \in StepsOf(op) /\ (Len(p) = 1 <=> Head(p) \in LastOf(op))
         /\ Len(p) # 1 => /\ Tail(p) \in Seq(Step) /\ PlanOf(op, Tail(p))
                          /\ Head(Tail(p)) \in {"open", "delete"} => Head(p) \in {"search", "open"}
<1>1. Len(p) \in Nat /\ Len(p) > 0
  BY DEF PlanOf
<1>2. \A i \in 1 .. Len(p) : p[i] \in StepsOf(op) /\ (p[i] \in LastOf(op) <=> i = Len(p))
  BY Zenon DEF PlanOf
<1>3. \A i \in 1 .. Len(p) : i > 1 /\ p[i] \in {"open", "delete"} => p[i - 1] \in {"search", "open"}
  BY Zenon DEF PlanOf
<1>4. Head(p) = p[1]
  BY <1>1
<1>5. Head(p) \in StepsOf(op) /\ (Len(p) = 1 <=> Head(p) \in LastOf(op))
  <2>1. 1 \in 1 .. Len(p)
    BY <1>1
  <2> QED
    BY <1>2, <1>4, <2>1, Zenon
<1>6. ASSUME Len(p) # 1
      PROVE  /\ Tail(p) \in Seq(Step) /\ PlanOf(op, Tail(p))
             /\ Head(Tail(p)) \in {"open", "delete"} => Head(p) \in {"search", "open"}
  <2> DEFINE t == Tail(p)
  <2>1. t \in Seq(Step) /\ Len(t) = Len(p) - 1 /\ Len(t) > 0
    BY <1>1, <1>6
  <2>2. ASSUME NEW i \in 1 .. Len(t) PROVE i + 1 \in 1 .. Len(p) /\ t[i] = p[i + 1] /\ (i + 1 = Len(p) <=> i = Len(t))
    BY <1>1, <2>1
  <2> HIDE DEF t
  <2>3. ASSUME NEW i \in 1 .. Len(t) PROVE t[i] \in StepsOf(op) /\ (t[i] \in LastOf(op) <=> i = Len(t))
    BY <1>2, <2>2, Zenon
  <2>4. ASSUME NEW i \in 1 .. Len(t), i > 1, t[i] \in {"open", "delete"} PROVE t[i - 1] \in {"search", "open"}
    <3>1. i + 1 \in 1 .. Len(p) /\ i + 1 > 1 /\ (i + 1) - 1 = (i - 1) + 1 /\ i - 1 \in 1 .. Len(t)
      BY <2>1, <2>2, <2>4
    <3>2. t[i - 1] = p[(i - 1) + 1] /\ t[i] = p[i + 1]
      BY <2>2, <3>1
    <3> QED
      BY <1>3, <2>4, <3>1, <3>2, Zenon
  <2>5. ASSUME Head(t) \in {"open", "delete"} PROVE Head(p) \in {"search", "open"}
    <3>1. Head(t) = t[1] /\ 1 \in 1 .. Len(t)
      BY <2>1
    <3>2. t[1] = p[1 + 1] /\ 1 + 1 \in 1 .. Len(p) /\ 1 + 1 > 1 /\ (1 + 1) - 1 = 1
      BY <2>2, <3>1
    <3> QED
      BY <1>3, <1>4, <2>5, <3>1, <3>2, Zenon
  <2>6. PlanOf(op, t)
    BY <2>1, <2>3, <2>4, Zenon DEF PlanOf
  <2> QED
    BY <2>1, <2>5, <2>6 DEF t
<1> QED
  BY <1>5, <1>6

\* Two states of one call.
SameCall(n, m) == m \in NativeCalls /\ m.op = n.op /\ m.secret = n.secret /\ m.value = n.value

(* A call that ends, and one that goes on. *)
LEMMA EndsEffect ==
  ASSUME NEW n \in NativeCalls, NEW result \in Result
  PROVE  SameCall(n, Ends(n, result)) /\ Ends(n, result).result = result
BY NoPlan DEF SameCall, NativeCalls, Ends, Result

LEMMA PassesEffect ==
  ASSUME NEW n \in NativeCalls, PlanOf(n.op, n.plan), n.result = None
  PROVE  /\ SameCall(n, Passes(n)) /\ Passes(n).found = n.found
         /\ Len(n.plan) = 1 => Passes(n).result = "ok"
         /\ Len(n.plan) # 1 => Passes(n).result = None /\ Passes(n).plan = Tail(n.plan)
                               /\ PlanOf(n.op, Passes(n).plan)
<1>1. n.op \in Ops /\ n.plan \in Seq(Step)
  BY DEF NativeCalls, Ops
<1>2. CASE Len(n.plan) = 1
  <2>1. Passes(n) = Ends(n, "ok") /\ Passes(n).found = n.found
    BY <1>2 DEF Passes, Ends, NativeCalls
  <2> QED
    BY <1>2, <2>1, EndsEffect DEF Result
<1>3. CASE Len(n.plan) # 1
  <2>1. PlanOf(n.op, Tail(n.plan)) /\ Tail(n.plan) \in Seq(Step)
    BY <1>1, <1>3, PlanSteps
  <2>2. Passes(n) = [n EXCEPT !.plan = Tail(n.plan), !.waiting = FALSE]
    BY <1>3 DEF Passes
  <2> QED
    BY <1>3, <2>1, <2>2 DEF SameCall, NativeCalls
<1> QED
  BY <1>2, <1>3

LEMMA FoundEffect ==
  ASSUME NEW n \in NativeCalls, NEW found \in SUBSET Nat
  PROVE  LET m == [n EXCEPT !.found = found] IN
         SameCall(n, m) /\ m.found = found /\ m.result = n.result /\ m.plan = n.plan
BY DEF SameCall, NativeCalls

LEMMA DeletedEffect ==
  ASSUME NEW n \in NativeCalls, NEW i
  PROVE  LET m == [n EXCEPT !.found = @ \ {i}, !.waiting = FALSE] IN
         SameCall(n, m) /\ m.found = n.found \ {i} /\ m.result = n.result /\ m.plan = n.plan
BY DEF SameCall, NativeCalls

\* A call goes on from n to m and leaves something of the items.
Proceeds(n, items, m, after) ==
  /\ SameCall(n, m) /\ after \in SUBSET Nat
  /\ m.result = None => PlanOf(n.op, m.plan)
  /\ m.result \in Results(n.op) \cup {None}
  /\ n.op \in {"presence", "read"} => after = items
  /\ n.op = "presence" /\ m.result \in {"present", "absent"} => (m.result = "present" <=> items # {})
  /\ n.op \in {"update", "add", "delete"} => \A base : DuringChange(n, base, items) => DuringChange(m, base, after)

LEMMA CreatedEffect ==
  ASSUME NEW items \in SUBSET Nat, NEW value \in Nat, NEW after \in Created(items, value)
  PROVE  after \in SUBSET Nat
BY DEF Created

(* What the system may do with a call. *)
LEMMA OutcomeEffect ==
  ASSUME keyring \in [Secret -> SUBSET Nat], PublicSettingsAssumption,
         NEW n \in NativeCalls, PlanOf(n.op, n.plan), n.result = None, NEW o \in Outcomes(n)
  PROVE  Proceeds(n, keyring[n.secret], o.native, o.items)
<1> DEFINE items == keyring[n.secret]
           step == Head(n.plan)
           Goal == Proceeds(n, items, o.native, o.items)
<1>1. n.op \in Ops /\ n.plan \in Seq(Step) /\ n.value \in Nat /\ n.found \in SUBSET Nat /\ items \in SUBSET Nat
  BY DEF NativeCalls, Ops
<1>2. /\ step \in StepsOf(n.op) /\ (Len(n.plan) = 1 <=> step \in LastOf(n.op))
      /\ Len(n.plan) # 1 => (Head(Tail(n.plan)) \in {"open", "delete"} => step \in {"search", "open"})
  BY <1>1, PlanSteps
<1>3. /\ SameCall(n, Passes(n)) /\ Passes(n).found = n.found
      /\ Len(n.plan) = 1 => Passes(n).result = "ok"
      /\ Len(n.plan) # 1 => Passes(n).result = None /\ Passes(n).plan = Tail(n.plan) /\ PlanOf(n.op, Passes(n).plan)
  BY PassesEffect
<1>4. \A r \in Result : SameCall(n, Ends(n, r)) /\ Ends(n, r).result = r
  BY EndsEffect
<1>5. None \notin Result
  BY DEF PublicSettingsAssumption
<1> SUFFICES Goal
  OBVIOUS
<1> HIDE DEF items, step, Goal
<1>0. ASSUME NEW after, NEW m, o = Outcome(after, m), Proceeds(n, items, m, after) PROVE Goal
  <2>1. o.items = after /\ o.native = m
    BY <1>0 DEF Outcome
  <2> QED
    BY <1>0, <2>1, Zenon DEF Goal
<1>6. CASE step = "unlock"
  <2> DEFINE m == Passes(n)
  <2>1. o = Outcome(items, m)
    BY <1>6, Zenon DEF Outcomes, items, step
  <2>2. Len(n.plan) # 1
    BY <1>1, <1>2, <1>6 DEF Ops, LastOf
  <2>3. SameCall(n, m) /\ m.result = None /\ PlanOf(n.op, m.plan) /\ Head(m.plan) \notin {"open", "delete"}
    BY <1>2, <1>3, <1>6, <2>2
  <2> HIDE DEF m
  <2>4. \A base : DuringChange(n, base, items) => DuringChange(m, base, items)
    BY <1>1, <1>5, <2>3 DEF DuringChange, SameCall, Result
  <2>5. Proceeds(n, items, m, items)
    BY <1>1, <1>5, <2>3, <2>4 DEF Proceeds, Result
  <2> QED
    BY <1>0, <2>1, <2>5
<1>7. CASE step = "search"
  <2>1. o = Search(n, items)
    BY <1>7, Zenon DEF Outcomes, items, step
  <2>2. CASE n.op = "presence"
    <3> DEFINE m == Ends(n, IF items = {} THEN "absent" ELSE "present")
    <3>1. o = Outcome(items, m)
      BY <2>1, <2>2 DEF Search
    <3>2. SameCall(n, m) /\ m.result = (IF items = {} THEN "absent" ELSE "present")
      BY <1>4 DEF Result
    <3> HIDE DEF m
    <3>3. Proceeds(n, items, m, items)
      BY <1>1, <1>5, <2>2, <3>2 DEF Proceeds, Result, Results
    <3> QED
      BY <1>0, <3>1, <3>3
  <2>3. CASE n.op # "presence" /\ items = {}
    <3> DEFINE m == Ends(n, "not found")
    <3>0. ~(Cardinality(items) > 1)
      BY <2>3, FS_EmptySet
    <3>1. o = Outcome(items, m)
      BY <2>1, <2>3, <3>0 DEF Search
    <3>2. SameCall(n, m) /\ m.result = "not found"
      BY <1>4 DEF Result
    <3> HIDE DEF m
    <3>3. \A base : DuringChange(n, base, items) => DuringChange(m, base, items)
      BY <1>1, <1>5, <2>3, <3>2 DEF DuringChange, SameCall, Result
    <3>4. Proceeds(n, items, m, items)
      BY <1>1, <1>5, <2>3, <3>2, <3>3 DEF Proceeds, Result, Results
    <3> QED
      BY <1>0, <3>1, <3>4
  <2>4. CASE n.op = "read" /\ items # {} /\ Cardinality(items) > 1
    <3> DEFINE m == Ends(n, "failed")
    <3>1. o = Outcome(items, m)
      BY <2>1, <2>4 DEF Search
    <3>2. SameCall(n, m) /\ m.result = "failed"
      BY <1>4 DEF Result
    <3> HIDE DEF m
    <3>3. Proceeds(n, items, m, items)
      BY <1>1, <1>5, <2>4, <3>2 DEF Proceeds, Result, Results
    <3> QED
      BY <1>0, <3>1, <3>3
  <2>5. CASE n.op # "presence" /\ items # {} /\ ~(n.op = "read" /\ Cardinality(items) > 1)
    <3> DEFINE m == [Passes(n) EXCEPT !.found = items]
    <3>1. o = Outcome(items, m)
      BY <2>1, <2>5 DEF Search
    <3>2. Len(n.plan) # 1
      BY <1>1, <1>2, <1>7, <2>5 DEF Ops, LastOf, StepsOf
    <3>3. Passes(n) \in NativeCalls
      BY <1>3 DEF SameCall
    <3>4. SameCall(n, m) /\ m.result = None /\ PlanOf(n.op, m.plan) /\ m.found = items
      BY <1>1, <1>3, <3>2, <3>3, FoundEffect DEF SameCall
    <3> HIDE DEF m
    <3>5. \A base : DuringChange(n, base, items) => DuringChange(m, base, items)
      BY <1>1, <1>5, <2>5, <3>4 DEF DuringChange, SameCall, Result
    <3>6. Proceeds(n, items, m, items)
      BY <1>1, <1>5, <2>5, <3>4, <3>5 DEF Proceeds, Result
    <3> QED
      BY <1>0, <3>1, <3>6
  <2> QED
    BY <2>2, <2>3, <2>4, <2>5
<1>8. CASE step = "open"
  <2>1. o = Outcome(items, IF n.found \subseteq items THEN Passes(n) ELSE Ends(n, "not found"))
    BY <1>8, Zenon DEF Outcomes, Open, items, step
  <2>2. n.op \in {"delete", "read"} /\ Len(n.plan) # 1
    BY <1>1, <1>2, <1>8 DEF Ops, StepsOf, LastOf
  <2>3. CASE n.found \subseteq items
    <3> DEFINE m == Passes(n)
    <3>1. SameCall(n, m) /\ m.result = None /\ PlanOf(n.op, m.plan) /\ m.found = n.found /\ step \in {"open", "delete"}
      BY <1>3, <1>8, <2>2
    <3>2. o = Outcome(items, m)
      BY <2>1, <2>3
    <3> HIDE DEF m
    <3>3. \A base : DuringChange(n, base, items) => DuringChange(m, base, items)
      BY <1>1, <1>5, <2>2, <3>1 DEF DuringChange, SameCall, Result, step
    <3>4. Proceeds(n, items, m, items)
      BY <1>1, <1>5, <2>2, <3>1, <3>3 DEF Proceeds, Result
    <3> QED
      BY <1>0, <3>2, <3>4
  <2>4. CASE ~(n.found \subseteq items)
    <3> DEFINE m == Ends(n, "not found")
    <3>1. SameCall(n, m) /\ m.result = "not found" /\ step \in {"open", "delete"}
      BY <1>4, <1>8 DEF Result
    <3>2. o = Outcome(items, m)
      BY <2>1, <2>4
    <3> HIDE DEF m
    <3>3. n.op = "delete" => \A base : ~DuringChange(n, base, items)
      BY <2>4, <3>1 DEF DuringChange, step
    <3>4. Proceeds(n, items, m, items)
      BY <1>1, <1>5, <2>2, <3>1, <3>3 DEF Proceeds, Result, Results
    <3> QED
      BY <1>0, <3>2, <3>4
  <2> QED
    BY <2>3, <2>4
<1>9. CASE step = "get"
  <2>1. o = Outcome(items, IF items = {} \/ ~(n.found \subseteq items) THEN Ends(n, "not found") ELSE Passes(n))
    BY <1>9, Zenon DEF Outcomes, Get, items, step
  <2>2. n.op = "read" /\ Len(n.plan) = 1
    BY <1>1, <1>2, <1>9 DEF Ops, StepsOf, LastOf
  <2> DEFINE m == IF items = {} \/ ~(n.found \subseteq items) THEN Ends(n, "not found") ELSE Passes(n)
  <2>3. SameCall(n, m) /\ m.result \in {"ok", "not found"}
    BY <1>3, <1>4, <2>2 DEF Result
  <2> HIDE DEF m
  <2>4. Proceeds(n, items, m, items)
    BY <1>1, <1>5, <2>2, <2>3 DEF Proceeds, Result, Results
  <2> QED
    BY <1>0, <2>1, <2>4 DEF m
<1>10. CASE step = "create"
  <2>1. PICK after \in Created(items, n.value) : o = Outcome(after, Passes(n))
    BY <1>10, Zenon DEF Outcomes, items, step
  <2>2. n.op \in {"update", "add"} /\ Len(n.plan) = 1
    BY <1>1, <1>2, <1>10 DEF Ops, StepsOf, LastOf
  <2> DEFINE m == Passes(n)
  <2>3. SameCall(n, m) /\ m.result = "ok" /\ after \in SUBSET Nat
    BY <1>1, <1>3, <2>2, CreatedEffect
  <2> HIDE DEF m
  <2>4. \A base : DuringChange(n, base, items) => DuringChange(m, base, after)
    BY <1>1, <1>5, <2>2, <2>3 DEF DuringChange, SameCall, Result
  <2>5. Proceeds(n, items, m, after)
    BY <1>1, <1>5, <2>2, <2>3, <2>4 DEF Proceeds, Result, Results
  <2> QED
    BY <1>0, <2>1, <2>5 DEF m
<1>11. CASE step = "delete"
  <2>1. PICK i \in n.found : o = Delete(n, items, i)
    BY <1>11, Zenon DEF Outcomes, items, step
  <2>2. n.op = "delete" /\ Len(n.plan) = 1
    BY <1>1, <1>2, <1>11 DEF Ops, StepsOf, LastOf
  <2>3. CASE i \notin items
    <3> DEFINE m == Ends(n, "not found")
    <3>1. o = Outcome(items, m)
      BY <2>1, <2>3 DEF Delete
    <3>2. SameCall(n, m) /\ m.result = "not found" /\ step \in {"open", "delete"}
      BY <1>4, <1>11 DEF Result
    <3> HIDE DEF m
    <3>3. \A base : ~DuringChange(n, base, items)
      BY <2>2, <2>3, <3>2 DEF DuringChange, step
    <3>4. Proceeds(n, items, m, items)
      BY <1>1, <1>5, <2>2, <3>2, <3>3 DEF Proceeds, Result, Results
    <3> QED
      BY <1>0, <3>1, <3>4
  <2>4. CASE i \in items /\ n.found = {i}
    <3> DEFINE m == Passes(n)
               after == items \ {i}
    <3>1. o = Outcome(after, m)
      BY <2>1, <2>4 DEF Delete
    <3>2. SameCall(n, m) /\ m.result = "ok" /\ step \in {"open", "delete"}
      BY <1>3, <1>11, <2>2
    <3>3. after \in SUBSET Nat /\ after \subseteq items /\ (n.found = items => after = {})
      BY <1>1, <2>4
    <3> HIDE DEF m, after
    <3>4. \A base : DuringChange(n, base, items) => DuringChange(m, base, after)
      BY <1>5, <2>2, <3>2, <3>3 DEF DuringChange, SameCall, step, Result
    <3>5. Proceeds(n, items, m, after)
      BY <1>1, <1>5, <2>2, <3>2, <3>3, <3>4 DEF Proceeds, Result, Results
    <3> QED
      BY <1>0, <3>1, <3>5
  <2>5. CASE i \in items /\ n.found # {i}
    <3> DEFINE m == [n EXCEPT !.found = @ \ {i}, !.waiting = FALSE]
               after == items \ {i}
    <3>1. o = Outcome(after, m)
      BY <2>1, <2>5 DEF Delete
    <3>2. SameCall(n, m) /\ m.result = None /\ m.found = n.found \ {i} /\ m.plan = n.plan /\ step \in {"open", "delete"}
      BY <1>11, DeletedEffect
    <3>3. after \in SUBSET Nat /\ after \subseteq items /\ (n.found = items => n.found \ {i} = after /\ after # {})
      BY <1>1, <2>5
    <3> HIDE DEF m, after
    <3>4. \A base : DuringChange(n, base, items) => DuringChange(m, base, after)
      BY <1>5, <2>2, <3>2, <3>3 DEF DuringChange, SameCall, step, Result
    <3>5. Proceeds(n, items, m, after)
      BY <1>1, <1>5, <2>2, <3>2, <3>3, <3>4 DEF Proceeds, Result, Results
    <3> QED
      BY <1>0, <3>1, <3>5
  <2> QED
    BY <2>3, <2>4, <2>5
<1>12. CASE step = "remove"
  <2> DEFINE m == Ends(n, IF items = {} THEN "not found" ELSE "ok")
  <2>1. o = Outcome({}, m)
    BY <1>12, Zenon DEF Outcomes, items, step
  <2>2. n.op = "delete"
    BY <1>1, <1>2, <1>12 DEF Ops, StepsOf, LastOf
  <2>3. SameCall(n, m) /\ m.result \in {"ok", "not found"}
    BY <1>4 DEF Result
  <2> HIDE DEF m
  <2>4. \A base : DuringChange(n, base, items) => DuringChange(m, base, {})
    BY <1>5, <2>2, <2>3 DEF DuringChange, SameCall, Result
  <2>5. Proceeds(n, items, m, {})
    BY <1>1, <1>5, <2>2, <2>3, <2>4 DEF Proceeds, Result, Results
  <2> QED
    BY <1>0, <2>1, <2>5
<1>13. CASE step = "replace"
  <2>1. n.op = "update" /\ Len(n.plan) = 1
    BY <1>1, <1>2, <1>13 DEF Ops, StepsOf, LastOf
  <2>2. CASE items = {}
    <3> DEFINE m == Ends(n, "not found")
    <3>1. o = Outcome(items, m)
      BY <1>13, <2>2, Zenon DEF Outcomes, items, step
    <3>2. SameCall(n, m) /\ m.result = "not found"
      BY <1>4 DEF Result
    <3> HIDE DEF m
    <3>3. \A base : DuringChange(n, base, items) => DuringChange(m, base, items)
      BY <1>1, <1>5, <2>1, <3>2 DEF DuringChange, SameCall, Result
    <3>4. Proceeds(n, items, m, items)
      BY <1>1, <1>5, <2>1, <3>2, <3>3 DEF Proceeds, Result, Results
    <3> QED
      BY <1>0, <3>1, <3>4
  <2>3. CASE items # {}
    <3>1. PICK after \in Created(items, n.value) : o = Outcome(after, Passes(n))
      BY <1>13, <2>3, Zenon DEF Outcomes, items, step
    <3> DEFINE m == Passes(n)
    <3>2. SameCall(n, m) /\ m.result = "ok" /\ after \in SUBSET Nat
      BY <1>1, <1>3, <2>1, CreatedEffect
    <3> HIDE DEF m
    <3>3. \A base : DuringChange(n, base, items) => DuringChange(m, base, after)
      BY <1>1, <1>5, <2>1, <3>2 DEF DuringChange, SameCall, Result
    <3>4. Proceeds(n, items, m, after)
      BY <1>1, <1>5, <2>1, <3>2, <3>3 DEF Proceeds, Result, Results
    <3> QED
      BY <1>0, <3>1, <3>4 DEF m
  <2> QED
    BY <2>2, <2>3
<1>14. CASE step = "insert"
  <2>1. n.op = "add" /\ Len(n.plan) = 1
    BY <1>1, <1>2, <1>14 DEF Ops, StepsOf, LastOf
  <2>2. CASE items = {}
    <3> DEFINE m == Passes(n)
    <3>1. o = Outcome({n.value}, m)
      BY <1>14, <2>2, Zenon DEF Outcomes, items, step
    <3>2. SameCall(n, m) /\ m.result = "ok" /\ {n.value} \in SUBSET Nat /\ {n.value} \in Created(items, n.value)
      BY <1>1, <1>3, <2>1, <2>2 DEF Created
    <3> HIDE DEF m
    <3>3. \A base : DuringChange(n, base, items) => DuringChange(m, base, {n.value})
      BY <1>1, <1>5, <2>1, <3>2 DEF DuringChange, SameCall, Result
    <3>4. Proceeds(n, items, m, {n.value})
      BY <1>1, <1>5, <2>1, <3>2, <3>3 DEF Proceeds, Result, Results
    <3> QED
      BY <1>0, <3>1, <3>4
  <2>3. CASE items # {}
    <3> DEFINE m == Ends(n, "failed")
    <3>1. o = Outcome(items, m)
      BY <1>14, <2>3, Zenon DEF Outcomes, items, step
    <3>2. SameCall(n, m) /\ m.result = "failed"
      BY <1>4 DEF Result
    <3> HIDE DEF m
    <3>3. \A base : DuringChange(n, base, items) => DuringChange(m, base, items)
      BY <1>1, <1>5, <2>1, <3>2 DEF DuringChange, SameCall, Result
    <3>4. Proceeds(n, items, m, items)
      BY <1>1, <1>5, <2>1, <3>2, <3>3 DEF Proceeds, Result, Results
    <3> QED
      BY <1>0, <3>1, <3>4
  <2> QED
    BY <2>2, <2>3
<1> QED
  BY <1>1, <1>2, <1>6, <1>7, <1>8, <1>9, <1>10, <1>11, <1>12, <1>13, <1>14 DEF Ops, StepsOf

(* What a refused call does, one whose answer does not come, and a prompt. *)
LEMMA FailsEffect ==
  ASSUME PublicSettingsAssumption, NEW n \in NativeCalls, n.result = None, NEW items \in SUBSET Nat
  PROVE  Proceeds(n, items, Ends(n, "failed"), items)
<1> DEFINE m == Ends(n, "failed")
<1>1. SameCall(n, m) /\ m.result = "failed"
  BY EndsEffect DEF Result
<1>2. None \notin Result
  BY DEF PublicSettingsAssumption
<1> HIDE DEF m
<1>3. n.op \in {"update", "add", "delete"} => \A base : DuringChange(n, base, items) => DuringChange(m, base, items)
  BY <1>1, <1>2 DEF DuringChange, SameCall, Result
<1>4. Proceeds(n, items, m, items)
  BY <1>1, <1>2, <1>3 DEF Proceeds, Result, Results
<1> QED
  BY <1>4 DEF m

LEMMA UnansweredEffect ==
  ASSUME PublicSettingsAssumption, NEW n \in NativeCalls, n.result = None, NEW items, NEW m, NEW after,
         Proceeds(n, items, m, after)
  PROVE  Proceeds(n, items, Ends(n, "failed"), after)
<1> DEFINE f == Ends(n, "failed")
<1>1. SameCall(n, f) /\ f.result = "failed"
  BY EndsEffect DEF Result
<1>2. None \notin Result
  BY DEF PublicSettingsAssumption
<1>3. SameCall(n, m)
  BY DEF Proceeds
<1> HIDE DEF f
<1>4. \A base : n.op \in {"update", "add", "delete"} /\ DuringChange(m, base, after) => DuringChange(f, base, after)
  BY <1>1, <1>2, <1>3 DEF DuringChange, SameCall, Result
<1>5. Proceeds(n, items, f, after)
  BY <1>1, <1>2, <1>4 DEF Proceeds, Result, Results
<1> QED
  BY <1>5 DEF f

LEMMA PromptEffect ==
  ASSUME NEW n \in NativeCalls, PlanOf(n.op, n.plan), n.result = None, NEW items \in SUBSET Nat
  PROVE  Proceeds(n, items, [n EXCEPT !.waiting = TRUE], items)
<1> DEFINE m == [n EXCEPT !.waiting = TRUE]
<1>1. SameCall(n, m) /\ m.result = None /\ m.plan = n.plan /\ m.found = n.found
  BY DEF SameCall, NativeCalls
<1> HIDE DEF m
<1>2. \A base : DuringChange(n, base, items) => DuringChange(m, base, items)
  BY <1>1 DEF DuringChange, SameCall
<1>3. n.op # "presence" \/ None \notin {"present", "absent"}
  BY PublicSettingsAssumption DEF PublicSettingsAssumption, Result
<1>4. Proceeds(n, items, m, items)
  BY <1>1, <1>2, <1>3 DEF Proceeds
<1> QED
  BY <1>4 DEF m

-----------------------------------------------------------------------------
(* What each step of a native call changes.                                *)

\* A call goes on, and its prompt may stay on the desktop.
CallGoesOn ==
  /\ native \in NativeCalls /\ native.result = None
  /\ Proceeds(native, keyring[native.secret], native', keyring'[native.secret])
  /\ keyring' \in [Secret -> SUBSET Nat] /\ \A s \in Secret : s # native.secret => keyring'[s] = keyring[s]
  /\ orphans' \subseteq NativeCalls /\ \A n \in orphans' : PlanOf(n.op, n.plan) /\ n.result = None /\ n.secret \in disturbed'
  /\ disturbed \subseteq disturbed' /\ disturbed' \subseteq Secret
  /\ UNCHANGED <<host, command, disk, manager, allowed, owed, left>>

(* A call that is carried out. *)
LEMMA CarriedOutEffect ==
  ASSUME TypeOK, NEW n \in NativeCalls, PlanOf(n.op, n.plan), n.result = None, NEW o \in Outcomes(n),
         keyring' = [keyring EXCEPT ![n.secret] = o.items]
  PROVE  /\ Proceeds(n, keyring[n.secret], o.native, keyring'[n.secret])
         /\ keyring' \in [Secret -> SUBSET Nat] /\ \A s \in Secret : s # n.secret => keyring'[s] = keyring[s]
<1>1. keyring \in [Secret -> SUBSET Nat] /\ n.secret \in Secret
  BY DEF TypeOK, NativeCalls
<1>2. Proceeds(n, keyring[n.secret], o.native, o.items)
  BY <1>1, OutcomeEffect, PublicSettingsAssumption
<1>3. o.items \in SUBSET Nat
  BY <1>2 DEF Proceeds
<1> QED
  BY <1>1, <1>2, <1>3

LEMMA CallSteps ==
  ASSUME Inv, NativeReplies \/ NativeFails \/ NativePrompts \/ PromptAccepted \/ PromptDismissed \/ Deadline
  PROVE  CallGoesOn
<1>1. /\ Calling /\ native \in NativeCalls /\ native.result = None /\ native # None
      /\ PlanOf(native.op, native.plan) /\ native.secret \in Secret
      /\ keyring \in [Secret -> SUBSET Nat] /\ keyring[native.secret] \in SUBSET Nat
  BY DEF NativeReplies, NativeFails, NativePrompts, PromptAccepted, PromptDismissed, Deadline, Expires, Calling,
         Inv, TypeOK, Planned, NativeCalls
<1>2. /\ orphans \subseteq NativeCalls /\ \A n \in orphans : PlanOf(n.op, n.plan) /\ n.result = None /\ n.secret \in disturbed
      /\ disturbed \subseteq Secret
  BY DEF Inv, TypeOK, Planned
<1>3. CASE NativeReplies \/ PromptAccepted
  <2>1. PICK o \in Outcomes(native) : Happens(o)
    BY <1>3 DEF NativeReplies, PromptAccepted
  <2>2. keyring' = [keyring EXCEPT ![native.secret] = o.items] /\ native' = o.native
    BY <2>1 DEF Happens
  <2>3. /\ Proceeds(native, keyring[native.secret], o.native, keyring'[native.secret])
        /\ keyring' \in [Secret -> SUBSET Nat] /\ \A s \in Secret : s # native.secret => keyring'[s] = keyring[s]
    BY <1>1, <2>2, CarriedOutEffect DEF Inv
  <2>4. UNCHANGED <<host, orphans, command, disk, manager, allowed, owed, disturbed, left>>
    BY <1>3 DEF NativeReplies, PromptAccepted
  <2> QED
    BY <1>1, <1>2, <2>2, <2>3, <2>4 DEF CallGoesOn
<1>4. CASE NativeFails \/ PromptDismissed
  <2>1. native' = Ends(native, "failed") /\ UNCHANGED <<host, keyring, orphans, command, disk, manager, allowed, owed, disturbed, left>>
    BY <1>4 DEF NativeFails, PromptDismissed
  <2>2. Proceeds(native, keyring[native.secret], native', keyring'[native.secret])
    BY <1>1, <2>1, FailsEffect, PublicSettingsAssumption
  <2> QED
    BY <1>1, <1>2, <2>1, <2>2 DEF CallGoesOn
<1>5. CASE NativePrompts
  <2>1. native' = [native EXCEPT !.waiting = TRUE]
        /\ UNCHANGED <<host, keyring, orphans, command, disk, manager, allowed, owed, disturbed, left>>
    BY <1>5 DEF NativePrompts
  <2>2. Proceeds(native, keyring[native.secret], native', keyring'[native.secret])
    BY <1>1, <2>1, PromptEffect
  <2> QED
    BY <1>1, <1>2, <2>1, <2>2 DEF CallGoesOn
<1>6. CASE Deadline
  <2>1. native' = Ends(native, "failed") /\ UNCHANGED <<host, command, disk, manager, allowed, owed, left>>
    BY <1>6 DEF Deadline
  <2>2. CASE CarriedOut(native) /\ UNCHANGED <<orphans, disturbed>>
    <3>1. PICK o \in Outcomes(native) : keyring' = [keyring EXCEPT ![native.secret] = o.items]
      BY <2>2 DEF CarriedOut
    <3>2. /\ Proceeds(native, keyring[native.secret], o.native, keyring'[native.secret])
          /\ keyring' \in [Secret -> SUBSET Nat] /\ \A s \in Secret : s # native.secret => keyring'[s] = keyring[s]
      BY <1>1, <3>1, CarriedOutEffect DEF Inv
    <3>3. Proceeds(native, keyring[native.secret], native', keyring'[native.secret])
      BY <1>1, <2>1, <3>2, UnansweredEffect, PublicSettingsAssumption
    <3> QED
      BY <1>1, <1>2, <2>1, <2>2, <3>2, <3>3 DEF CallGoesOn
  <2>3. CASE orphans' = orphans \cup Withdrawn(native) /\ UNCHANGED <<keyring, disturbed>>
    <3>1. Proceeds(native, keyring[native.secret], native', keyring'[native.secret])
      BY <1>1, <2>1, <2>3, FailsEffect, PublicSettingsAssumption
    <3>2. orphans' = orphans
      BY <2>3 DEF Withdrawn
    <3> QED
      BY <1>1, <1>2, <2>1, <2>3, <3>1, <3>2 DEF CallGoesOn
  <2>4. CASE Stays(native) /\ UNCHANGED keyring
    <3>1. Proceeds(native, keyring[native.secret], native', keyring'[native.secret])
      BY <1>1, <2>1, <2>4, FailsEffect, PublicSettingsAssumption
    <3>2. orphans' = orphans \cup {native} /\ disturbed' = disturbed \cup {native.secret}
      BY <2>4 DEF Stays
    <3>3. orphans' \subseteq NativeCalls /\ \A n \in orphans' : PlanOf(n.op, n.plan) /\ n.result = None /\ n.secret \in disturbed'
      BY <1>1, <1>2, <3>2
    <3> QED
      BY <1>1, <1>2, <2>1, <2>4, <3>1, <3>2, <3>3 DEF CallGoesOn
  <2> QED
    BY <1>6, <2>2, <2>3, <2>4 DEF Deadline
<1> QED
  BY <1>3, <1>4, <1>5, <1>6

-----------------------------------------------------------------------------
(* A native call goes on.                                                  *)

(* Only a save has changes to make. *)
LEMMA OnlySavesChange ==
  ASSUME NEW c \in Commands, Ordered(c), NEW i \in 1 .. Len(c.todo), c.todo[i].do \in Mutations
  PROVE  c.kind = "save" /\ c.todo[i].secret \in Secret /\ c.todo[i].do = c.changes[c.todo[i].secret]
<1>1. c.todo[i].secret \in Secret /\ c.todo[i].do = c.changes[c.todo[i].secret]
  BY DEF Ordered, ChangesFirst
<1>2. c.kind = "save"
  <2>1. SUFFICES ASSUME c.kind # "save" PROVE FALSE
    OBVIOUS
  <2>2. c.changes = Kept
    BY <2>1 DEF Ordered
  <2> QED
    BY <1>1, <2>2 DEF Kept, Mutations
<1> QED
  BY <1>1, <1>2

(* The call under way is the first task that is left. *)
LEMMA ServedTask ==
  ASSUME TypeOK, Tasks, native # None
  PROVE  /\ command \in Commands /\ command # None /\ Ordered(command) /\ native \in NativeCalls
         /\ Len(command.todo) > 0 /\ 1 \in 1 .. Len(command.todo) /\ Head(command.todo) = command.todo[1]
         /\ command.todo[1].secret = native.secret /\ native.secret \in Secret /\ native.value = command.number
         /\ command.todo[1].do = (IF native.op = "add" THEN "update" ELSE native.op)
<1>1. command # None /\ command \in Commands /\ Ordered(command) /\ native \in NativeCalls
  BY DEF TypeOK, Tasks, Serves
<1>2. command.todo # <<>> /\ command.todo \in Seq([do : Do, secret : Secret \cup {None}])
  BY <1>1 DEF Tasks, Serves, Commands
<1>3. Len(command.todo) > 0 /\ 1 \in 1 .. Len(command.todo) /\ Head(command.todo) = command.todo[1]
  BY <1>2
<1> QED
  BY <1>1, <1>3 DEF Tasks, Serves, NativeCalls

LEMMA CallKeepsTypeOK ==
  ASSUME TypeOK, CallGoesOn
  PROVE  TypeOK' /\ native' # None /\ native # None
<1>1. native' \in NativeCalls
  BY DEF CallGoesOn, Proceeds, SameCall
<1>2. None \notin NativeCalls
  BY PublicSettingsAssumption DEF PublicSettingsAssumption
<1> QED
  BY <1>1, <1>2 DEF TypeOK, CallGoesOn

LEMMA CallKeepsTasks ==
  ASSUME TypeOK, Tasks, CallGoesOn
  PROVE  Tasks'
<1>1. native # None /\ native'.op = native.op /\ native'.secret = native.secret /\ native'.value = native.value
  BY CallKeepsTypeOK DEF CallGoesOn, Proceeds, SameCall
<1>2. UNCHANGED <<host, command>>
  BY DEF CallGoesOn
<1>3. command # None => Ordered(command)'
  BY <1>2 DEF Tasks, Ordered, Places, FileStepsOf, FileTaskLeft, Keeps
<1>4. Serves'
  BY <1>1, <1>2 DEF Tasks, Serves
<1> QED
  BY <1>2, <1>3, <1>4 DEF Tasks

LEMMA CallKeepsFile ==
  ASSUME FileKept, CallGoesOn
  PROVE  FileKept'
BY DEF CallGoesOn, FileKept, SaveProgress, FileStepsOf, Begun, Keeps

LEMMA CallKeepsPlanned ==
  ASSUME TypeOK, Planned, CallGoesOn
  PROVE  Planned'
<1>1. native'.op = native.op /\ native \in NativeCalls
  BY DEF CallGoesOn, Proceeds, SameCall
<1>2. (native'.result = None => PlanOf(native'.op, native'.plan)) /\ native'.result \in Results(native'.op) \cup {None}
  BY <1>1 DEF CallGoesOn, Proceeds
<1>3. \A n \in orphans' : PlanOf(n.op, n.plan) /\ n.result = None /\ n.secret \in disturbed'
  BY DEF CallGoesOn
<1> QED
  BY <1>2, <1>3 DEF Planned

LEMMA CallKeepsSecrets ==
  ASSUME TypeOK, Tasks, SecretsKept, CallGoesOn
  PROVE  SecretsKept'
<1>1. SUFFICES ASSUME NEW s \in Secret, s \notin disturbed' PROVE SecretKept(s)'
  BY DEF SecretsKept
<1>2. SecretKept(s)
  BY <1>1 DEF SecretsKept, CallGoesOn
<1>3. /\ native # None /\ native' # None /\ native'.op = native.op /\ native'.secret = native.secret
      /\ native'.value = native.value /\ native \in NativeCalls /\ native.result = None
      /\ UNCHANGED <<command, manager, allowed>>
  BY CallKeepsTypeOK DEF CallGoesOn, Proceeds, SameCall
<1>4. /\ command \in Commands /\ command # None /\ Ordered(command) /\ 1 \in 1 .. Len(command.todo)
      /\ command.todo[1].secret = native.secret
      /\ command.todo[1].do = (IF native.op = "add" THEN "update" ELSE native.op)
  BY <1>3, ServedTask
<1>5. CASE s # native.secret
  <2>1. keyring'[s] = keyring[s]
    BY <1>5 DEF CallGoesOn
  <2>2. ~Changing(s) /\ ~Changing(s)'
    BY <1>3, <1>5 DEF Changing
  <2>3. \E base \in allowed'[s] : Follows(s, base)'
    <3>1. PICK base \in allowed[s] : Follows(s, base)
      BY <1>2, <1>4 DEF SecretKept
    <3>2. Follows(s, base)'
      BY <1>3, <2>1, <2>2, <3>1 DEF Follows, Pending
    <3> QED
      BY <1>3, <3>1, <3>2
  <2> QED
    BY <1>2, <1>3, <1>4, <1>5, <2>1, <2>3 DEF SecretKept, Tells
<1>6. CASE s = native.secret /\ native.op \in {"presence", "read"}
  <2>1. keyring'[s] = keyring[s]
    BY <1>6 DEF CallGoesOn, Proceeds
  <2>2. ~Changing(s) /\ ~Changing(s)'
    BY <1>3, <1>6 DEF Changing
  <2>3. \E base \in allowed'[s] : Follows(s, base)'
    <3>1. PICK base \in allowed[s] : Follows(s, base)
      BY <1>2, <1>4 DEF SecretKept
    <3>2. Follows(s, base)'
      BY <1>3, <2>1, <2>2, <3>1 DEF Follows, Pending
    <3> QED
      BY <1>3, <3>1, <3>2
  <2>4. native'.op = "presence" /\ native'.result \in {"present", "absent"} => (native'.result = "present" <=> keyring'[s] # {})
    BY <1>3, <1>6, <2>1 DEF CallGoesOn, Proceeds
  <2> QED
    BY <1>2, <1>3, <1>4, <2>1, <2>3, <2>4 DEF SecretKept, Tells
<1>7. CASE s = native.secret /\ native.op \in {"update", "add", "delete"}
  <2>1. Changing(s) /\ Changing(s)'
    BY <1>3, <1>7 DEF Changing
  <2>2. command.kind = "save" /\ command.todo[1].do \in Mutations
    BY <1>4, <1>7, OnlySavesChange DEF Mutations
  <2>3. command.readings[s] = "unknown"
    BY <1>2, <1>4, <2>2 DEF SecretKept
  <2>4. \E base \in allowed'[s] : Follows(s, base)'
    <3>1. PICK base \in allowed[s] : Follows(s, base)
      BY <1>2, <1>4 DEF SecretKept
    <3>2. DuringChange(native, base, keyring[s])
      BY <2>1, <3>1 DEF Follows
    <3>3. DuringChange(native', base, keyring'[s])
      BY <1>7, <3>2 DEF CallGoesOn, Proceeds
    <3>4. Follows(s, base)'
      BY <2>1, <3>3 DEF Follows, DuringChange
    <3> QED
      BY <1>3, <3>1, <3>4
  <2> QED
    BY <1>3, <1>4, <1>7, <2>2, <2>3, <2>4 DEF SecretKept, Tells
<1>8. native.op \in {"update", "add", "delete", "presence", "read"}
  BY <1>3 DEF NativeCalls
<1> QED
  BY <1>5, <1>6, <1>7, <1>8

-----------------------------------------------------------------------------
(* Tasks.                                                                  *)

Rows == Seq([do : Do, secret : Secret \cup {None}])

LEMMA RowHead ==
  ASSUME NEW q \in Rows, q # <<>>
  PROVE  /\ Len(q) \in Nat /\ Len(q) > 0 /\ 1 \in 1 .. Len(q) /\ Head(q) = q[1]
         /\ Tail(q) \in Rows /\ Len(Tail(q)) = Len(q) - 1
         /\ \A i \in 1 .. Len(q) - 1 : Tail(q)[i] = q[i + 1] /\ i + 1 \in 1 .. Len(q)
BY DEF Rows

\* Two states of one command.
SameCommand(c, d) ==
  d \in Commands /\ d.kind = c.kind /\ d.changes = c.changes /\ d.number = c.number

LEMMA DoneEffect ==
  ASSUME NEW c \in Commands, c.todo # <<>>
  PROVE  SameCommand(c, Done(c)) /\ Done(c).todo = Tail(c.todo) /\ Done(c).failed = c.failed
         /\ Done(c).readings = c.readings /\ Done(c).settings = c.settings
<1>1. Tail(c.todo) \in Seq([do : Do, secret : Secret \cup {None}])
  BY DEF Commands
<1> QED
  BY <1>1 DEF Done, SameCommand, Commands

(* The order of the tasks is that of those that are left. *)
LEMMA OrderedTail ==
  ASSUME NEW c \in Commands, Ordered(c), c.todo # <<>>, NEW d, SameCommand(c, d), d.todo = Tail(c.todo), c.failed => d.failed
  PROVE  Ordered(d)
<1> DEFINE q == c.todo
           t == d.todo
<1>1. q \in Rows
  BY DEF Commands, Rows
<1>2. /\ Len(q) \in Nat /\ Len(q) > 0 /\ Len(t) = Len(q) - 1 /\ \A i \in 1 .. Len(t) : t[i] = q[i + 1] /\ i + 1 \in 1 .. Len(q)
  BY <1>1, RowHead
<1>3. c.failed \in BOOLEAN /\ d.failed \in BOOLEAN /\ d.kind = c.kind /\ d.changes = c.changes
  BY DEF SameCommand, Commands
<1> HIDE DEF q, t
<1>4. Places(q) => Places(t)
  <2>1. FileStepsOf \in Nat
    BY DEF FileStepsOf
  <2>2. ASSUME Places(q), NEW i \in 1 .. Len(t)
        PROVE  IF Len(t) - i < FileStepsOf THEN t[i].do = FileTaskLeft(Len(t) - i) ELSE t[i].do \notin FileTasks
    <3>1. Len(t) - i = Len(q) - (i + 1) /\ i + 1 \in 1 .. Len(q) /\ t[i] = q[i + 1]
      BY <1>2
    <3> QED
      BY <2>2, <3>1, Zenon DEF Places
  <2> QED
    BY <2>2 DEF Places
<1>5. NoFile(q) => NoFile(t)
  BY <1>2 DEF NoFile
<1>6. (\A i \in 1 .. Len(q) : q[i].do # "load") => (\A i \in 1 .. Len(t) : t[i].do # "load")
  BY <1>2
<1>7. (\A i \in 1 .. Len(q) : q[i].do \in FileTasks \cup {"load"}) => (\A i \in 1 .. Len(t) : t[i].do \in FileTasks \cup {"load"})
  BY <1>2
<1>8. ChangesFirst(q, c.changes) => ChangesFirst(t, c.changes)
  <2>1. ASSUME ChangesFirst(q, c.changes), NEW i \in 1 .. Len(t)
        PROVE  /\ t[i].do \in Mutations => t[i].secret \in Secret /\ t[i].do = c.changes[t[i].secret]
               /\ t[i].do \in {"presence", "read"} => t[i].secret \in Secret
    BY <1>2, <2>1 DEF ChangesFirst
  <2>2. ASSUME ChangesFirst(q, c.changes), NEW i \in 1 .. Len(t), NEW j \in 1 .. Len(t), i < j, t[j].do \in Mutations
        PROVE  t[i].do \in Mutations /\ t[i].secret # t[j].secret
    <3>1. t[i] = q[i + 1] /\ t[j] = q[j + 1] /\ i + 1 \in 1 .. Len(q) /\ j + 1 \in 1 .. Len(q) /\ i + 1 < j + 1
      BY <1>2, <2>2
    <3> QED
      BY <2>2, <3>1 DEF ChangesFirst
  <2> QED
    BY <2>1, <2>2 DEF ChangesFirst
<1> QED
  BY <1>3, <1>4, <1>5, <1>6, <1>7, <1>8 DEF Ordered, q, t

-----------------------------------------------------------------------------
(* The tasks a command begins with.                                        *)

LEMMA TaskType ==
  ASSUME NEW do \in Do, NEW secret \in Secret \cup {None}
  PROVE  Task(do, secret) \in [do : Do, secret : Secret \cup {None}]
         /\ Task(do, secret).do = do /\ Task(do, secret).secret = secret
BY DEF Task

LEMMA SavingTasks ==
  /\ Saving \in Rows /\ Len(Saving) = FileStepsOf
  /\ \A i \in 1 .. Len(Saving) : Saving[i].do = FileTaskLeft(Len(Saving) - i)
<1> DEFINE w == Task("write", None)  y == Task("sync", None)  r == Task("rename", None)
           p == Task("secure", None)  f == Task("flush", None)
<1>1. /\ {w, y, r, p, f} \subseteq [do : Do, secret : Secret \cup {None}]
      /\ w.do = "write" /\ y.do = "sync" /\ r.do = "rename" /\ p.do = "secure" /\ f.do = "flush"
  BY TaskType DEF Do, FileTasks
<1>2. Saving = <<w, y, r>> \o (IF Keeps THEN <<p, f>> ELSE <<>>)
  BY DEF Saving
<1> HIDE DEF w, y, r, p, f
<1>3. CASE Keeps
  <2>1. Saving = <<w, y, r>> \o <<p, f>>
    BY <1>2, <1>3
  <2>2. /\ Saving \in Rows /\ Len(Saving) = 5
        /\ Saving[1] = w /\ Saving[2] = y /\ Saving[3] = r /\ Saving[4] = p /\ Saving[5] = f
    BY <1>1, <2>1 DEF Rows
  <2> QED
    BY <1>1, <1>3, <2>2 DEF FileStepsOf, FileTaskLeft
<1>4. CASE ~Keeps
  <2>1. Saving = <<w, y, r>>
    BY <1>2, <1>4
  <2>2. Saving \in Rows
    BY <1>1, <2>1 DEF Rows
  <2> QED
    BY <1>1, <1>4, <2>1, <2>2 DEF FileStepsOf, FileTaskLeft
<1> QED
  BY <1>3, <1>4

LEMMA MutationTasks ==
  ASSUME NEW changes \in [Secret -> Change]
  PROVE  LET q == Mutation(changes) IN
         /\ q \in Rows
         /\ \A i \in 1 .. Len(q) : q[i].do \in Mutations /\ q[i].secret \in Secret /\ q[i].do = changes[q[i].secret]
         /\ \A i, j \in 1 .. Len(q) : i < j => q[i].secret # q[j].secret
         /\ \A s \in Secret : changes[s] # "keep" => \E i \in 1 .. Len(q) : q[i].secret = s
<1> DEFINE t == Task(changes["token"], "token")
           p == Task(changes["password"], "password")
           q == Mutation(changes)
<1>1. changes["token"] \in Change /\ changes["password"] \in Change
  BY DEF Secret
<1>2. CASE changes["token"] = "keep" /\ changes["password"] = "keep"
  <2>1. q = <<>>
    BY <1>2 DEF Mutation, Changed
  <2> QED
    BY <1>2, <2>1 DEF Rows, Secret
<1>3. CASE changes["token"] # "keep" /\ changes["password"] = "keep"
  <2>1. q = <<t>>
    BY <1>3 DEF Mutation, Changed
  <2>2. t \in [do : Do, secret : Secret \cup {None}] /\ t.do = changes["token"] /\ t.secret = "token" /\ t.do \in Mutations
    BY <1>1, <1>3, TaskType DEF Do, Change, Secret, Mutations
  <2> HIDE DEF t, q
  <2>3. Len(q) = 1 /\ q[1] = t /\ q \in Rows
    BY <2>1, <2>2 DEF Rows
  <2> QED
    BY <1>3, <2>2, <2>3 DEF Secret, q
<1>4. CASE changes["token"] = "keep" /\ changes["password"] # "keep"
  <2>1. q = <<p>>
    BY <1>4 DEF Mutation, Changed
  <2>2. p \in [do : Do, secret : Secret \cup {None}] /\ p.do = changes["password"] /\ p.secret = "password" /\ p.do \in Mutations
    BY <1>1, <1>4, TaskType DEF Do, Change, Secret, Mutations
  <2> HIDE DEF p, q
  <2>3. Len(q) = 1 /\ q[1] = p /\ q \in Rows
    BY <2>1, <2>2 DEF Rows
  <2> QED
    BY <1>4, <2>2, <2>3 DEF Secret, q
<1>5. CASE changes["token"] # "keep" /\ changes["password"] # "keep"
  <2>1. q = <<t>> \o <<p>>
    BY <1>5 DEF Mutation, Changed
  <2>2. t \in [do : Do, secret : Secret \cup {None}] /\ t.do = changes["token"] /\ t.secret = "token" /\ t.do \in Mutations
    BY <1>1, <1>5, TaskType DEF Do, Change, Secret, Mutations
  <2>3. p \in [do : Do, secret : Secret \cup {None}] /\ p.do = changes["password"] /\ p.secret = "password" /\ p.do \in Mutations
    BY <1>1, <1>5, TaskType DEF Do, Change, Secret, Mutations
  <2> HIDE DEF t, p, q
  <2>4. Len(q) = 2 /\ q[1] = t /\ q[2] = p /\ q \in Rows
    BY <2>1, <2>2, <2>3 DEF Rows
  <2> QED
    BY <1>5, <2>2, <2>3, <2>4 DEF Secret, q
<1> QED
  BY <1>2, <1>3, <1>4, <1>5

LEMMA BothTasks ==
  ASSUME NEW do \in Do
  PROVE  /\ Both(do) \in Rows /\ Len(Both(do)) = 2
         /\ Tail(Both(do)) \in Rows /\ Len(Tail(Both(do))) = 1
         /\ \A i \in 1 .. 2 : Both(do)[i].do = do /\ Both(do)[i].secret \in Secret
         /\ Tail(Both(do))[1].do = do /\ Tail(Both(do))[1].secret \in Secret
<1> DEFINE t == Task(do, "token")  p == Task(do, "password")
<1>1. /\ {t, p} \subseteq [do : Do, secret : Secret \cup {None}]
      /\ t.do = do /\ p.do = do /\ t.secret \in Secret /\ p.secret \in Secret
  BY TaskType DEF Secret
<1>2. Both(do) = <<t, p>>
  BY DEF Both
<1> HIDE DEF t, p
<1>3. Both(do) \in Rows /\ Len(Both(do)) = 2 /\ Both(do)[1] = t /\ Both(do)[2] = p
  BY <1>1, <1>2 DEF Rows
<1>4. Tail(Both(do)) \in Rows /\ Len(Tail(Both(do))) = 1 /\ Tail(Both(do))[1] = p
  BY <1>1, <1>2 DEF Rows
<1> QED
  BY <1>1, <1>3, <1>4

(* Rows one after another. *)
LEMMA RowsJoined ==
  ASSUME NEW a \in Rows, NEW b \in Rows
  PROVE  /\ a \o b \in Rows /\ Len(a \o b) = Len(a) + Len(b)
         /\ \A i \in 1 .. Len(a \o b) : (a \o b)[i] = (IF i <= Len(a) THEN a[i] ELSE b[i - Len(a)])
BY DEF Rows

\* The tasks of a save.
SaveTasks(changes) == Mutation(changes) \o (IF Keeps THEN Both("presence") ELSE <<>>) \o Saving

LEMMA SaveOrdered ==
  ASSUME NEW changes \in [Secret -> Change], ~Keeps => changes = Kept
  PROVE  LET q == SaveTasks(changes) IN
         /\ q \in Rows /\ Len(q) >= FileStepsOf
         /\ Places(q) /\ ChangesFirst(q, changes)
         /\ \A i \in 1 .. Len(q) : q[i].do # "load" /\ (~Keeps => q[i].do \in FileTasks)
         /\ \A s \in Secret : changes[s] # "keep" => \E i \in 1 .. Len(q) : q[i].do \in Mutations /\ q[i].secret = s
<1> DEFINE m == Mutation(changes)
           p == IF Keeps THEN Both("presence") ELSE <<>>
           f == Saving
           q == (m \o p) \o f
<1>1. /\ m \in Rows /\ Len(m) \in Nat
      /\ \A i \in 1 .. Len(m) : m[i].do \in Mutations /\ m[i].secret \in Secret /\ m[i].do = changes[m[i].secret]
      /\ \A i, j \in 1 .. Len(m) : i < j => m[i].secret # m[j].secret
      /\ \A s \in Secret : changes[s] # "keep" => \E i \in 1 .. Len(m) : m[i].secret = s
  <2>1. m \in Rows
    BY MutationTasks, Zenon
  <2>2. Len(m) \in Nat
    <3> HIDE DEF m
    <3> QED
      BY <2>1 DEF Rows
  <2> QED
    BY <2>1, <2>2, MutationTasks, Zenon
<1>2. p \in Rows /\ Len(p) \in Nat /\ (~Keeps => Len(p) = 0)
      /\ \A i \in 1 .. Len(p) : p[i].do = "presence" /\ p[i].secret \in Secret
  <2>1. CASE Keeps
    <3>1. p = Both("presence") /\ "presence" \in Do
      BY <2>1 DEF Do
    <3>2. Len(p) = 2 /\ p \in Rows
      BY <3>1, BothTasks
    <3>3. \A i \in 1 .. 2 : p[i].do = "presence" /\ p[i].secret \in Secret
      BY <3>1, BothTasks, Zenon
    <3> HIDE DEF p
    <3> QED
      BY <2>1, <3>2, <3>3
  <2>2. CASE ~Keeps
    BY <2>2 DEF Rows
  <2> QED
    BY <2>1, <2>2
<1>3. f \in Rows /\ Len(f) = FileStepsOf /\ FileStepsOf \in Nat
      /\ \A i \in 1 .. Len(f) : f[i].do = FileTaskLeft(Len(f) - i)
  BY SavingTasks DEF FileStepsOf
<1>4. ~Keeps => Len(m) = 0
  <2>1. SUFFICES ASSUME ~Keeps, Len(m) # 0 PROVE FALSE
    OBVIOUS
  <2>2. 1 \in 1 .. Len(m)
    BY <1>1, <2>1
  <2>3. m[1].do \in Mutations /\ m[1].secret \in Secret /\ m[1].do = Kept[m[1].secret]
    BY <1>1, <2>1, <2>2
  <2> QED
    BY <2>3 DEF Kept, Mutations
<1> HIDE DEF m, p, f
<1>5. /\ q \in Rows /\ Len(q) = Len(m) + Len(p) + Len(f)
      /\ \A i \in 1 .. Len(q) :
           /\ i <= Len(m) => q[i] = m[i] /\ i \in 1 .. Len(m)
           /\ i > Len(m) /\ i <= Len(m) + Len(p) => q[i] = p[i - Len(m)] /\ i - Len(m) \in 1 .. Len(p)
           /\ i > Len(m) + Len(p) => q[i] = f[i - (Len(m) + Len(p))] /\ i - (Len(m) + Len(p)) \in 1 .. Len(f)
  <2> DEFINE h == m \o p
  <2>1. h \in Rows /\ Len(h) = Len(m) + Len(p) /\ \A i \in 1 .. Len(h) : h[i] = (IF i <= Len(m) THEN m[i] ELSE p[i - Len(m)])
    BY <1>1, <1>2, RowsJoined
  <2> HIDE DEF h
  <2>2. h \o f \in Rows /\ Len(h \o f) = Len(h) + Len(f)
        /\ \A i \in 1 .. Len(h \o f) : (h \o f)[i] = (IF i <= Len(h) THEN h[i] ELSE f[i - Len(h)])
    BY <1>3, <2>1, RowsJoined
  <2>3. q = h \o f
    BY DEF h
  <2> HIDE DEF q
  <2> QED
    BY <1>1, <1>2, <1>3, <2>1, <2>2, <2>3
<1> HIDE DEF q
<1>6. ASSUME NEW i \in 1 .. Len(q)
      PROVE  \/ i <= Len(m) /\ q[i].do \in Mutations /\ q[i].secret \in Secret /\ q[i].do = changes[q[i].secret]
             \/ i > Len(m) /\ i <= Len(m) + Len(p) /\ q[i].do = "presence" /\ q[i].secret \in Secret
             \/ /\ i > Len(m) + Len(p) /\ q[i].do = FileTaskLeft(Len(q) - i) /\ Len(q) - i < FileStepsOf
                /\ Len(q) - i \in Nat
  <2>1. CASE i <= Len(m)
    BY <1>1, <1>5, <2>1
  <2>2. CASE i > Len(m) /\ i <= Len(m) + Len(p)
    BY <1>2, <1>5, <2>2
  <2>3. CASE i > Len(m) + Len(p)
    <3>1. q[i].do = FileTaskLeft(Len(f) - (i - (Len(m) + Len(p))))
      BY <1>3, <1>5, <2>3
    <3>2. Len(f) - (i - (Len(m) + Len(p))) = Len(q) - i /\ Len(q) - i < FileStepsOf /\ Len(q) - i \in Nat
      BY <1>1, <1>2, <1>3, <1>5, <2>3
    <3> QED
      BY <2>3, <3>1, <3>2
  <2> QED
    BY <1>1, <1>2, <2>1, <2>2, <2>3
<1>7. \A n \in Nat : FileTaskLeft(n) \in FileTasks
  BY DEF FileTaskLeft, FileTasks
<1>8. Mutations \cap FileTasks = {} /\ "presence" \notin FileTasks \cup Mutations \cup {"load"} /\ "load" \notin FileTasks \cup Mutations
      /\ "read" \notin FileTasks \cup Mutations
  BY DEF Mutations, FileTasks
<1>9. Places(q)
  <2>1. ASSUME NEW i \in 1 .. Len(q), Len(q) - i < FileStepsOf PROVE i > Len(m) + Len(p)
    BY <1>1, <1>2, <1>3, <1>5, <2>1
  <2>2. ASSUME NEW i \in 1 .. Len(q)
        PROVE  IF Len(q) - i < FileStepsOf THEN q[i].do = FileTaskLeft(Len(q) - i) ELSE q[i].do \notin FileTasks
    <3>1. CASE i <= Len(m)
      BY <1>1, <1>2, <1>6, <1>8, <2>1, <3>1
    <3>2. CASE i > Len(m) /\ i <= Len(m) + Len(p)
      BY <1>1, <1>2, <1>6, <1>8, <2>1, <3>2
    <3>3. CASE i > Len(m) + Len(p)
      BY <1>1, <1>2, <1>6, <3>3
    <3> QED
      BY <1>1, <1>2, <3>1, <3>2, <3>3
  <2> QED
    BY <2>2 DEF Places
<1>10. ASSUME NEW i \in 1 .. Len(q), q[i].do \in Mutations
       PROVE  i <= Len(m) /\ i \in 1 .. Len(m) /\ q[i] = m[i] /\ q[i].secret \in Secret /\ q[i].do = changes[q[i].secret]
  <2>1. i <= Len(m)
    BY <1>6, <1>7, <1>8, <1>10
  <2> QED
    BY <1>5, <1>6, <1>7, <1>8, <1>10, <2>1
<1>11. ChangesFirst(q, changes)
  <2>1. ASSUME NEW i \in 1 .. Len(q), NEW j \in 1 .. Len(q), i < j, q[j].do \in Mutations
        PROVE  q[i].do \in Mutations /\ q[i].secret # q[j].secret
    <3>1. j <= Len(m) /\ j \in 1 .. Len(m) /\ q[j] = m[j]
      BY <1>10, <2>1
    <3>2. i <= Len(m) /\ i \in 1 .. Len(m) /\ q[i] = m[i]
      BY <1>1, <1>5, <2>1, <3>1
    <3> QED
      BY <1>1, <2>1, <3>1, <3>2
  <2>2. ASSUME NEW i \in 1 .. Len(q), q[i].do \in {"presence", "read"} PROVE q[i].secret \in Secret
    BY <1>6, <1>7, <1>8, <2>2
  <2> QED
    BY <1>10, <2>1, <2>2 DEF ChangesFirst
<1>12. ASSUME NEW i \in 1 .. Len(q) PROVE q[i].do # "load" /\ (~Keeps => q[i].do \in FileTasks)
  <2>1. q[i].do # "load"
    BY <1>6, <1>7, <1>8
  <2>2. ~Keeps => i > Len(m) + Len(p)
    BY <1>1, <1>2, <1>4
  <2> QED
    BY <1>1, <1>2, <1>6, <1>7, <2>1, <2>2
<1>13. ASSUME NEW s \in Secret, changes[s] # "keep"
       PROVE  \E i \in 1 .. Len(q) : q[i].do \in Mutations /\ q[i].secret = s
  <2>1. PICK i \in 1 .. Len(m) : m[i].secret = s
    BY <1>1, <1>13
  <2>2. i \in 1 .. Len(q) /\ i <= Len(m)
    BY <1>1, <1>2, <1>3, <1>5
  <2>3. q[i] = m[i]
    BY <1>5, <2>2
  <2> QED
    BY <1>1, <2>1, <2>2, <2>3
<1>14. Len(q) >= FileStepsOf
  BY <1>1, <1>2, <1>3, <1>5
<1>15. q = SaveTasks(changes)
  BY DEF q, m, p, f, SaveTasks
<1> QED
  BY <1>5, <1>9, <1>11, <1>12, <1>13, <1>14, <1>15

\* A new command.
NewCommand(c, kind, changes, todo) ==
  /\ c \in Commands /\ c.kind = kind /\ c.changes = changes /\ c.todo = todo /\ c.failed = FALSE
  /\ c.number = Begun + 1 /\ c.settings = manager.settings /\ c.readings = Unknown

LEMMA CommandEffect ==
  ASSUME TypeOK, NEW kind \in {"save", "use", "launch"}, NEW changes \in [Secret -> Change], NEW todo \in Rows
  PROVE  NewCommand(Command(kind, changes, todo), kind, changes, todo)
<1>1. MaxCommand \in Nat /\ left.command \in 0 .. MaxCommand
  BY PublicSettingsAssumption DEF PublicSettingsAssumption, TypeOK
<1>2. MaxCommand - left.command + 1 \in Nat
  BY <1>1
<1>3. Unknown \in Readings
  BY DEF Unknown, Readings
<1> QED
  BY <1>2, <1>3 DEF NewCommand, Command, Commands, Rows, Begun, TypeOK

\* A command begins.
Begins(kind, changes, todo) ==
  /\ command = None /\ native = None /\ command' = Command(kind, changes, todo)
  /\ todo \in Rows /\ changes \in [Secret -> Change] /\ kind \in {"save", "use", "launch"}
  /\ ChangesFirst(todo, changes)
  /\ kind = "save" => Places(todo) /\ Len(todo) >= FileStepsOf /\ Begun' = Begun + 1
  /\ kind # "save" => NoFile(todo) /\ changes = Kept
  /\ kind # "launch" => manager.up /\ \A i \in 1 .. Len(todo) : todo[i].do # "load"
  /\ kind = "launch" => ~manager.up
  /\ ~Keeps => changes = Kept /\ \A i \in 1 .. Len(todo) : todo[i].do \in FileTasks \cup {"load"}
  /\ \A s \in Secret : changes[s] # "keep" => \E i \in 1 .. Len(todo) : todo[i].do \in Mutations /\ todo[i].secret = s
  /\ \A i \in 1 .. Len(todo) : kind # "save" => todo[i].do \notin Mutations
  /\ left' \in [command : 0 .. MaxCommand, mishap : 0 .. MaxMishap] /\ Begun' >= Begun
  /\ UNCHANGED <<host, keyring, orphans, native, disk, manager, allowed, owed, disturbed>>

LEMMA NoCallBetween ==
  ASSUME Tasks, command = None
  PROVE  native = None
BY DEF Tasks, Serves

LEMMA KeptChange == Kept \in [Secret -> Change]
BY DEF Kept, Change

LEMMA AskedEffect ==
  ASSUME TypeOK, Asked
  PROVE  manager.up /\ Begun' = Begun + 1 /\ Begun \in Nat /\ left' \in [command : 0 .. MaxCommand, mishap : 0 .. MaxMishap]
<1>1. MaxCommand \in Nat /\ left \in [command : 0 .. MaxCommand, mishap : 0 .. MaxMishap]
  BY PublicSettingsAssumption DEF PublicSettingsAssumption, TypeOK
<1>2. manager.up /\ left.command > 0 /\ left' = [left EXCEPT !.command = left.command - 1]
  BY DEF Asked
<1>3. left.command - 1 \in 0 .. MaxCommand
  BY <1>1, <1>2
<1>4. left' \in [command : 0 .. MaxCommand, mishap : 0 .. MaxMishap] /\ left'.command = left.command - 1
  BY <1>1, <1>2, <1>3
<1> QED
  BY <1>1, <1>2, <1>4 DEF Begun

LEMMA SaveBegins ==
  ASSUME TypeOK, Tasks, Save
  PROVE  \E changes : Begins("save", changes, SaveTasks(changes))
<1>1. PICK changes \in (IF Keeps THEN Offered ELSE {Kept}) :
           Begin("save", changes, Mutation(changes) \o (IF Keeps THEN Both("presence") ELSE <<>>) \o Saving)
  BY DEF Save
<1>2. changes \in [Secret -> Change] /\ (~Keeps => changes = Kept)
  BY <1>1, KeptChange, PublicSettingsAssumption DEF PublicSettingsAssumption
<1>3. Begin("save", changes, SaveTasks(changes))
  BY <1>1 DEF SaveTasks
<1>4. manager.up /\ Begun' = Begun + 1 /\ Begun \in Nat /\ left' \in [command : 0 .. MaxCommand, mishap : 0 .. MaxMishap]
  BY AskedEffect DEF Save
<1>5. native = None
  BY <1>3, NoCallBetween DEF Begin
<1>6. Begun' >= Begun
  BY <1>4
<1>7. /\ SaveTasks(changes) \in Rows /\ Len(SaveTasks(changes)) >= FileStepsOf
      /\ Places(SaveTasks(changes)) /\ ChangesFirst(SaveTasks(changes), changes)
      /\ \A i \in 1 .. Len(SaveTasks(changes)) : SaveTasks(changes)[i].do # "load" /\ (~Keeps => SaveTasks(changes)[i].do \in FileTasks)
      /\ \A s \in Secret : changes[s] # "keep" =>
           \E i \in 1 .. Len(SaveTasks(changes)) : SaveTasks(changes)[i].do \in Mutations /\ SaveTasks(changes)[i].secret = s
  BY <1>2, SaveOrdered, Zenon
<1>8. Begins("save", changes, SaveTasks(changes))
  BY <1>2, <1>3, <1>4, <1>5, <1>6, <1>7 DEF Begins, Begin
<1> QED
  BY <1>8

LEMMA UseBegins ==
  ASSUME TypeOK, Tasks, Use
  PROVE  \E secrets : Begins("use", Kept, secrets)
<1>1. PICK secrets \in {Both("read"), Tail(Both("read"))} : Begin("use", Kept, secrets)
  BY DEF Use
<1>2. "read" \in Do /\ "read" \notin FileTasks \cup Mutations \cup {"load"}
  BY DEF Do, FileTasks, Mutations
<1>3. secrets \in Rows /\ \A i \in 1 .. Len(secrets) : secrets[i].do = "read" /\ secrets[i].secret \in Secret
  <2>1. CASE secrets = Both("read")
    BY <1>2, <2>1, BothTasks
  <2>2. CASE secrets = Tail(Both("read"))
    BY <1>2, <2>2, BothTasks
  <2> QED
    BY <2>1, <2>2
<1>4. manager.up /\ Keeps /\ Begun' = Begun + 1 /\ Begun \in Nat /\ left' \in [command : 0 .. MaxCommand, mishap : 0 .. MaxMishap]
  BY AskedEffect DEF Use
<1>5. native = None /\ Begun' >= Begun
  BY <1>1, <1>4, NoCallBetween DEF Begin
<1>6. ChangesFirst(secrets, Kept) /\ NoFile(secrets) /\ \A i \in 1 .. Len(secrets) : secrets[i].do \notin Mutations \cup {"load"}
  BY <1>2, <1>3 DEF ChangesFirst, NoFile
<1>7. \A s \in Secret : Kept[s] = "keep"
  BY DEF Kept
<1>8. Begins("use", Kept, secrets)
  BY <1>1, <1>3, <1>4, <1>5, <1>6, <1>7, KeptChange DEF Begins, Begin
<1> QED
  BY <1>8

LEMMA LaunchBegins ==
  ASSUME TypeOK, Tasks, Launch
  PROVE  \E todo : Begins("launch", Kept, todo)
<1> DEFINE l == Task("load", None)
           p == IF Keeps THEN Both("presence") ELSE <<>>
           q == <<l>> \o p
<1>1. ~manager.up /\ UNCHANGED left /\ Begin("launch", Kept, q)
  BY DEF Launch
<1>2. {"load", "presence"} \subseteq Do /\ {"load", "presence"} \cap (FileTasks \cup Mutations) = {} /\ "load" \notin {"presence", "read"}
  BY DEF Do, FileTasks, Mutations
<1>3. p \in Rows /\ (~Keeps => Len(p) = 0) /\ \A i \in 1 .. Len(p) : p[i].do = "presence" /\ p[i].secret \in Secret
  <2>1. CASE Keeps
    <3>1. p = Both("presence")
      BY <2>1
    <3>2. Len(p) = 2 /\ p \in Rows
      BY <1>2, <3>1, BothTasks
    <3>3. \A i \in 1 .. 2 : p[i].do = "presence" /\ p[i].secret \in Secret
      BY <1>2, <3>1, BothTasks, Zenon
    <3> HIDE DEF p
    <3> QED
      BY <2>1, <3>2, <3>3
  <2>2. CASE ~Keeps
    BY <2>2 DEF Rows
  <2> QED
    BY <2>1, <2>2
<1>4. <<l>> \in Rows /\ Len(<<l>>) = 1 /\ <<l>>[1] = l /\ l.do = "load"
  BY <1>2, TaskType DEF Rows
<1> HIDE DEF l, p
<1>5. q \in Rows /\ Len(q) = 1 + Len(p) /\ \A i \in 1 .. Len(q) : q[i] = (IF i <= 1 THEN <<l>>[i] ELSE p[i - 1])
  BY <1>3, <1>4, RowsJoined
<1> HIDE DEF q
<1>6. Len(p) \in Nat
  BY <1>3 DEF Rows
<1>7. ASSUME NEW i \in 1 .. Len(q)
      PROVE  q[i].do = "load" \/ (Keeps /\ q[i].do = "presence" /\ q[i].secret \in Secret)
  <2>1. CASE i = 1
    BY <1>4, <1>5, <2>1
  <2>2. CASE i > 1
    <3>1. i - 1 \in 1 .. Len(p) /\ q[i] = p[i - 1]
      BY <1>5, <1>6, <2>2
    <3> QED
      BY <1>3, <3>1
  <2> QED
    BY <1>5, <1>6, <2>1, <2>2
<1>8. ChangesFirst(q, Kept) /\ NoFile(q) /\ \A i \in 1 .. Len(q) : q[i].do \notin Mutations /\ (~Keeps => q[i].do = "load")
  BY <1>2, <1>7 DEF ChangesFirst, NoFile
<1>9. native = None
  BY <1>1, NoCallBetween DEF Begin
<1>10. left' \in [command : 0 .. MaxCommand, mishap : 0 .. MaxMishap] /\ Begun' >= Begun
  BY <1>1, PublicSettingsAssumption DEF TypeOK, Begun, PublicSettingsAssumption
<1>11. \A s \in Secret : Kept[s] = "keep"
  BY DEF Kept
<1>12. Begins("launch", Kept, q)
  BY <1>1, <1>5, <1>8, <1>9, <1>10, <1>11, KeptChange DEF Begins, Begin
<1> QED
  BY <1>12

-----------------------------------------------------------------------------
(* A command begins: nothing of it has been done.                          *)

LEMMA BeginKeepsTypeOK ==
  ASSUME TypeOK, NEW kind, NEW changes, NEW todo, Begins(kind, changes, todo)
  PROVE  /\ TypeOK' /\ command' \in Commands /\ command' # None /\ command'.kind = kind /\ command'.changes = changes
         /\ command'.todo = todo /\ command'.failed = FALSE /\ command'.number = Begun + 1
         /\ command'.settings = manager.settings /\ command'.readings = Unknown
<1>1. kind \in {"save", "use", "launch"} /\ changes \in [Secret -> Change] /\ todo \in Rows /\ command' = Command(kind, changes, todo)
  BY DEF Begins
<1>2. /\ command' \in Commands /\ command'.kind = kind /\ command'.changes = changes
      /\ command'.todo = todo /\ command'.failed = FALSE /\ command'.number = Begun + 1
      /\ command'.settings = manager.settings /\ command'.readings = Unknown
  <2>1. NewCommand(Command(kind, changes, todo), kind, changes, todo)
    BY <1>1, CommandEffect
  <2> QED
    BY <1>1, <2>1 DEF NewCommand
<1>3. None \notin Commands
  BY PublicSettingsAssumption DEF PublicSettingsAssumption
<1>4. TypeOK'
  BY <1>2 DEF TypeOK, Begins
<1> QED
  BY <1>2, <1>3, <1>4

LEMMA BeginKeepsTasks ==
  ASSUME TypeOK, NEW kind, NEW changes, NEW todo, Begins(kind, changes, todo)
  PROVE  Tasks'
<1>0. command'.kind = kind /\ command'.changes = changes /\ command'.todo = todo
  BY BeginKeepsTypeOK
<1>1. command'.kind = kind /\ command'.changes = changes /\ command'.todo = todo /\ host' = host /\ native' = None
  BY <1>0 DEF Begins
<1>2. Ordered(command)'
  BY <1>1 DEF Begins, Ordered, Places, FileStepsOf, FileTaskLeft, Keeps
<1> QED
  BY <1>1, <1>2 DEF Tasks, Serves

LEMMA BeginKeepsFile ==
  ASSUME TypeOK, FileKept, NEW kind, NEW changes, NEW todo, Begins(kind, changes, todo)
  PROVE  FileKept'
<1>0. command'.kind = kind /\ command'.todo = todo /\ command'.number = Begun + 1 /\ command'.settings = manager.settings
  BY BeginKeepsTypeOK
<1>1. /\ UNCHANGED <<host, disk, manager, owed>> /\ Begun' >= Begun
      /\ kind = "save" => Len(todo) >= FileStepsOf /\ Begun' = Begun + 1
      /\ kind = "launch" => ~manager.up
  BY DEF Begins
<1>2. Begun \in Nat /\ Begun' \in Nat
  BY PublicSettingsAssumption DEF TypeOK, Begun, PublicSettingsAssumption, Begins
<1>3. disk.file.stamp \in Nat /\ disk.durable.stamp \in Nat
  BY DEF TypeOK, File
<1>4. disk.file.stamp <= Begun' /\ disk.durable.stamp <= Begun'
  BY <1>1, <1>2, <1>3 DEF FileKept
<1>5. kind = "save" => SaveProgress(command)'
  <2>1. Len(todo) \in Nat
    BY DEF Begins, Rows
  <2>2. FileStepsOf \in {3, 5} /\ FileStepsOf' = FileStepsOf
    BY <1>1 DEF FileStepsOf, Keeps
  <2> QED
    BY <1>0, <1>1, <2>1, <2>2 DEF SaveProgress
<1>6. kind = "launch" => ~manager.up /\ manager.settings = 0 /\ manager.settings <= disk.file.stamp
  BY <1>1, <1>3 DEF FileKept
<1> QED
  BY <1>0, <1>1, <1>4, <1>5, <1>6 DEF FileKept, Keeps

LEMMA BeginKeepsPlanned ==
  ASSUME Planned, NEW kind, NEW changes, NEW todo, Begins(kind, changes, todo)
  PROVE  Planned'
BY DEF Planned, Begins

LEMMA BeginKeepsSecrets ==
  ASSUME TypeOK, SecretsKept, NEW kind, NEW changes, NEW todo, Begins(kind, changes, todo)
  PROVE  SecretsKept'
<1>1. SUFFICES ASSUME NEW s \in Secret, s \notin disturbed' PROVE SecretKept(s)'
  BY DEF SecretsKept
<1>2. /\ command' # None /\ command'.kind = kind /\ command'.changes = changes /\ command'.todo = todo
      /\ command'.failed = FALSE /\ command'.readings[s] = "unknown"
  BY BeginKeepsTypeOK DEF Unknown
<1>3. command = None /\ native' = None /\ UNCHANGED <<keyring, allowed, manager, disturbed>>
  BY DEF Begins
<1>4. keyring[s] \in allowed[s] /\ Tells(manager.presence[s], s)
  BY <1>1, <1>3 DEF SecretsKept, SecretKept
<1>5. ~Changing(s)'
  BY <1>3 DEF Changing
<1>6. changes[s] # "keep" => Pending(s)'
  BY <1>2 DEF Pending, Begins
<1>7. Follows(s, keyring[s])'
  BY <1>2, <1>3, <1>5, <1>6 DEF Follows, Effects, Pending
<1> QED
  BY <1>2, <1>3, <1>4, <1>7 DEF SecretKept, Tells

LEMMA BeginKeepsDown ==
  ASSUME TypeOK, Down, NEW kind, NEW changes, NEW todo, Begins(kind, changes, todo)
  PROVE  Down'
<1>1. command'.kind = kind
  BY BeginKeepsTypeOK
<1> QED
  BY <1>1 DEF Begins, Down

-----------------------------------------------------------------------------
(* A native call is made.                                                  *)

\* The next task of a command is the business of the keyring's store.
Makes(op) ==
  /\ op \in {"update", "delete", "presence", "read"} /\ native = None
  /\ command # None /\ command \in Commands /\ Ordered(command) /\ 1 \in 1 .. Len(command.todo) /\ command.todo # <<>>
  /\ Head(command.todo) = command.todo[1] /\ command.todo[1].do = op /\ command.todo[1].secret \in Secret
  /\ native' = NativeCall(op, command.todo[1].secret, command.number)
  /\ UNCHANGED <<host, keyring, orphans, command, disk, manager, allowed, owed, disturbed, left>>

(* Only the settings have secrets. *)
LEMMA StoreHasSystem ==
  ASSUME TypeOK, NEW c \in Commands, Ordered(c), NEW i \in 1 .. Len(c.todo),
         c.todo[i].do \in {"update", "delete", "presence", "read"}
  PROVE  Keeps /\ host.system \in System
<1>1. Keeps
  BY DEF Ordered, FileTasks
<1> QED
  BY <1>1 DEF TypeOK, Keeps

LEMMA MakesCall ==
  ASSUME TypeOK, Tasks, CallStore
  PROVE  \E op : Makes(op)
<1>1. PICK op \in {"update", "delete", "presence", "read"} : Doing(op) /\ native' = NativeCall(op, Head(command.todo).secret, command.number)
  BY DEF CallStore
<1>2. command # None /\ command \in Commands /\ Ordered(command) /\ command.todo # <<>> /\ command.todo \in Rows
  BY <1>1 DEF Doing, TypeOK, Tasks, Commands, Rows
<1>3. 1 \in 1 .. Len(command.todo) /\ Head(command.todo) = command.todo[1]
  BY <1>2, RowHead
<1>4. command.todo[1].do = op /\ command.todo[1].secret \in Secret
  BY <1>1, <1>2, <1>3 DEF Doing, Ordered, ChangesFirst, Mutations
<1> QED
  BY <1>1, <1>2, <1>3, <1>4 DEF Makes, CallStore

(* A new call. *)
LEMMA NewCall ==
  ASSUME host.system \in System, NEW op \in Ops, NEW secret \in Secret, NEW value \in Nat
  PROVE  LET n == NativeCall(op, secret, value) IN
         /\ n \in NativeCalls /\ n.op = op /\ n.secret = secret /\ n.value = value /\ n.result = None /\ n.plan = Plan(op)
         /\ PlanOf(op, n.plan) /\ (op = "delete" => Head(n.plan) \notin {"open", "delete"})
<1>1. Plan(op) \in Seq(Step) /\ PlanOf(op, Plan(op))
  BY NewPlan
<1>2. op = "delete" => Head(Plan(op)) \notin {"open", "delete"}
  BY DEF Plan, LinuxPlan, WindowsPlan, DarwinPlan, System
<1> QED
  BY <1>1, <1>2 DEF NativeCall, NativeCalls, Ops

LEMMA MakesEffect ==
  ASSUME TypeOK, NEW op, Makes(op)
  PROVE  /\ native' \in NativeCalls /\ native' # None /\ native'.op = op /\ native'.secret = command.todo[1].secret
         /\ native'.value = command.number /\ native'.result = None
         /\ PlanOf(op, native'.plan) /\ (op = "delete" => Head(native'.plan) \notin {"open", "delete"})
<1>1. op \in Ops /\ command.todo[1].secret \in Secret /\ command.number \in Nat
  BY DEF Makes, Ops, Commands
<1>2. host.system \in System
  BY StoreHasSystem DEF Makes
<1>3. None \notin NativeCalls
  BY PublicSettingsAssumption DEF PublicSettingsAssumption
<1> QED
  BY <1>1, <1>2, <1>3, NewCall DEF Makes

LEMMA MakeKeepsRest ==
  ASSUME Inv, NEW op, Makes(op)
  PROVE  TypeOK' /\ Tasks' /\ FileKept' /\ Planned' /\ Down'
<1>1. /\ native' \in NativeCalls /\ native' # None /\ native'.op = op /\ native'.secret = command.todo[1].secret
      /\ native'.value = command.number /\ native'.result = None /\ PlanOf(op, native'.plan)
      /\ op # "add" /\ Head(command.todo) = command.todo[1] /\ command.todo[1].do = op /\ command # None /\ command.todo # <<>>
      /\ UNCHANGED <<host, keyring, orphans, command, disk, manager, allowed, owed, disturbed, left>>
  BY MakesEffect DEF Inv, Makes
<1>2. TypeOK'
  BY <1>1 DEF Inv, TypeOK
<1>3. Tasks'
  <2>1. Ordered(command)'
    BY <1>1 DEF Inv, Tasks, Ordered, Places, FileStepsOf, FileTaskLeft, Keeps
  <2>2. Serves'
    BY <1>1 DEF Serves
  <2> QED
    BY <2>1, <2>2 DEF Tasks
<1>4. FileKept'
  BY <1>1 DEF Inv, FileKept, SaveProgress, FileStepsOf, Begun, Keeps
<1>5. Planned'
  BY <1>1 DEF Inv, Planned
<1>6. Down'
  BY <1>1 DEF Inv, Down
<1> QED
  BY <1>2, <1>3, <1>4, <1>5, <1>6

LEMMA MakeKeepsSecrets ==
  ASSUME TypeOK, SecretsKept, NEW op, Makes(op)
  PROVE  SecretsKept'
<1>1. SUFFICES ASSUME NEW s \in Secret, s \notin disturbed' PROVE SecretKept(s)'
  BY DEF SecretsKept
<1>2. /\ native' # None /\ native'.op = op /\ native'.secret = command.todo[1].secret /\ native'.result = None
      /\ op = "delete" => Head(native'.plan) \notin {"open", "delete"}
  BY MakesEffect
<1>3. /\ native = None /\ command # None /\ command \in Commands /\ Ordered(command) /\ 1 \in 1 .. Len(command.todo)
      /\ command.todo[1].do = op /\ op \in {"update", "delete", "presence", "read"}
      /\ UNCHANGED <<keyring, command, manager, allowed, disturbed>>
  BY DEF Makes
<1>4. SecretKept(s)
  BY <1>1, <1>3 DEF SecretsKept
<1>5. PICK base \in allowed[s] : Follows(s, base)
  BY <1>3, <1>4 DEF SecretKept
<1>6. ~Changing(s)
  BY <1>3 DEF Changing
<1>7. None \notin Result
  BY PublicSettingsAssumption DEF PublicSettingsAssumption
<1>8. Follows(s, base)'
  <2>1. CASE Changing(s)'
    <3>1. op \in Mutations /\ command.todo[1].secret = s
      BY <1>2, <1>3, <2>1 DEF Changing, Mutations
    <3>2. op = command.changes[s] /\ Pending(s)
      BY <1>3, <3>1, OnlySavesChange DEF Pending, Mutations
    <3>3. keyring[s] = base
      BY <1>5, <1>6, <3>2 DEF Follows
    <3>4. DuringChange(native', base, keyring'[s])
      BY <1>2, <1>3, <1>7, <3>3 DEF DuringChange, Result
    <3> QED
      BY <2>1, <3>4 DEF Follows, DuringChange
  <2>2. CASE ~Changing(s)'
    BY <1>3, <1>5, <1>6, <2>2 DEF Follows, Pending
  <2> QED
    BY <2>1, <2>2
<1>9. native'.result \notin {"present", "absent"}
  BY <1>2, <1>7 DEF Result
<1> QED
  BY <1>3, <1>4, <1>5, <1>8, <1>9 DEF SecretKept, Tells

-----------------------------------------------------------------------------
(* What a change may leave.                                                *)

LEMMA EffectsMayLeave ==
  ASSUME NEW change \in Change, NEW value, NEW base, NEW items \in Effects(change, value, base)
  PROVE  items \in MayLeave(change, value, base)
<1>1. CASE change = "keep"
  BY <1>1 DEF Effects, MayLeave
<1>2. CASE change = "update"
  BY <1>2 DEF Effects, MayLeave
<1>3. CASE change = "delete"
  BY <1>3 DEF Effects, MayLeave
<1> QED
  BY <1>1, <1>2, <1>3 DEF Change

LEMMA ChangeMayLeave ==
  ASSUME NEW n, n.op \in {"update", "add", "delete"}, NEW base, NEW items, DuringChange(n, base, items)
  PROVE  items \in MayLeave(IF n.op = "add" THEN "update" ELSE n.op, n.value, base)
<1>1. CASE n.op = "delete"
  BY <1>1 DEF DuringChange, MayLeave
<1>2. CASE n.op \in {"update", "add"}
  <2>1. items = base \/ items \in Created(base, n.value)
    BY <1>2 DEF DuringChange
  <2> QED
    BY <1>2, <2>1 DEF MayLeave, Effects
<1> QED
  BY <1>1, <1>2

(* The change of the call under way is that of its secret. *)
LEMMA ServedChange ==
  ASSUME TypeOK, Tasks, native # None, native.op \in {"update", "add", "delete"}
  PROVE  /\ command.changes[native.secret] = (IF native.op = "add" THEN "update" ELSE native.op)
         /\ command.kind = "save" /\ command.todo[1].do \in Mutations
<1>1. /\ command \in Commands /\ Ordered(command) /\ 1 \in 1 .. Len(command.todo) /\ command.todo[1].secret = native.secret
      /\ command.todo[1].do = (IF native.op = "add" THEN "update" ELSE native.op)
  BY ServedTask
<1>2. command.todo[1].do \in Mutations
  BY <1>1 DEF Mutations
<1> QED
  BY <1>1, <1>2, OnlySavesChange

(* Whatever has been done of a command, its change may have left. *)
LEMMA FollowsMayLeave ==
  ASSUME TypeOK, Tasks, command # None, NEW s \in Secret, NEW base, Follows(s, base)
  PROVE  keyring[s] \in MayLeave(command.changes[s], command.number, base)
<1>1. command \in Commands /\ command.changes[s] \in Change
  BY DEF TypeOK, Commands
<1>2. CASE Changing(s)
  <2>1. native # None /\ native.secret = s /\ native.op \in {"update", "add", "delete"} /\ DuringChange(native, base, keyring[s])
    BY <1>2 DEF Changing, Follows
  <2>2. command.changes[s] = (IF native.op = "add" THEN "update" ELSE native.op) /\ native.value = command.number
    BY <2>1, ServedChange, ServedTask
  <2> QED
    BY <2>1, <2>2, ChangeMayLeave
<1>3. CASE ~Changing(s) /\ Pending(s)
  BY <1>3 DEF Follows, MayLeave
<1>4. CASE ~Changing(s) /\ ~Pending(s)
  BY <1>1, <1>4, EffectsMayLeave DEF Follows
<1> QED
  BY <1>2, <1>3, <1>4

-----------------------------------------------------------------------------
(* A task is done.                                                         *)

\* The command goes on after its first task, which was not a change.
GoesOn ==
  /\ command \in Commands /\ command # None /\ command.todo # <<>> /\ Ordered(command)
  /\ command.todo[1].do \notin Mutations
  /\ SameCommand(command, command') /\ command' # None /\ (command.failed => command'.failed)
  /\ command'.todo = Tail(command.todo) \/ (command'.failed /\ command'.todo = <<>>)
  /\ native' = None /\ UNCHANGED <<host, keyring, orphans, manager, allowed, owed, disturbed, left>>

LEMMA GoesOnTodo ==
  ASSUME GoesOn
  PROVE  /\ \A i \in 1 .. Len(command.todo) : command.todo[i].do \notin Mutations
         /\ \A i \in 1 .. Len(command'.todo) : command'.todo[i].do \notin Mutations
<1>1. command.todo \in Rows /\ command.todo # <<>> /\ ChangesFirst(command.todo, command.changes)
  BY DEF GoesOn, Commands, Rows, Ordered
<1>2. /\ Len(command.todo) \in Nat /\ 1 \in 1 .. Len(command.todo) /\ Len(Tail(command.todo)) = Len(command.todo) - 1
      /\ \A i \in 1 .. Len(command.todo) - 1 : Tail(command.todo)[i] = command.todo[i + 1] /\ i + 1 \in 1 .. Len(command.todo)
  BY <1>1, RowHead
<1>3. ASSUME NEW i \in 1 .. Len(command.todo) PROVE command.todo[i].do \notin Mutations
  <2>1. i = 1 \/ 1 < i
    OBVIOUS
  <2> QED
    BY <1>1, <1>2, <2>1 DEF ChangesFirst, GoesOn
<1>4. ASSUME NEW i \in 1 .. Len(command'.todo) PROVE command'.todo[i].do \notin Mutations
  <2>1. CASE command'.todo = Tail(command.todo)
    BY <1>2, <1>3, <2>1
  <2>2. CASE command'.todo = <<>>
    BY <2>2
  <2> QED
    BY <2>1, <2>2 DEF GoesOn
<1> QED
  BY <1>3, <1>4

LEMMA GoesOnKeepsTasks ==
  ASSUME GoesOn
  PROVE  Tasks'
<1>1. command' \in Commands /\ native' = None /\ Ordered(command) /\ host' = host
  BY DEF GoesOn, SameCommand
<1>2. Ordered(command')
  <2>1. CASE command'.todo = Tail(command.todo)
    BY <2>1, OrderedTail DEF GoesOn
  <2>2. CASE command'.failed /\ command'.todo = <<>>
    BY <1>1, <2>2 DEF GoesOn, SameCommand, Ordered, NoFile, ChangesFirst
  <2> QED
    BY <2>1, <2>2 DEF GoesOn
<1>3. Ordered(command)'
  BY <1>1, <1>2 DEF Ordered, Places, FileStepsOf, FileTaskLeft, Keeps
<1> QED
  BY <1>1, <1>3 DEF Tasks, Serves

LEMMA GoesOnKeepsFollows ==
  ASSUME TypeOK, Tasks, GoesOn, native = None \/ native.op \notin {"update", "add", "delete"},
         NEW s \in Secret, NEW base, Follows(s, base)
  PROVE  Follows(s, base)'
<1>1. ~Pending(s) /\ ~Pending(s)'
  BY GoesOnTodo DEF Pending
<1>2. ~Changing(s) /\ ~Changing(s)'
  BY DEF Changing, GoesOn
<1>3. /\ command \in Commands /\ command'.changes = command.changes /\ command'.number = command.number /\ keyring' = keyring
      /\ command.failed => command'.failed
  BY DEF GoesOn, SameCommand
<1>4. CASE command'.failed
  <2>1. keyring[s] \in MayLeave(command.changes[s], command.number, base)
    BY FollowsMayLeave DEF GoesOn
  <2> QED
    BY <1>1, <1>2, <1>3, <1>4, <2>1 DEF Follows
<1>5. CASE ~command'.failed
  BY <1>1, <1>2, <1>3, <1>5 DEF Follows
<1> QED
  BY <1>4, <1>5

(* The secrets are as they were, and what is read of one is true. *)
LEMMA GoesOnKeepsSecrets ==
  ASSUME TypeOK, Tasks, SecretsKept, GoesOn, native = None \/ native.op \notin {"update", "add", "delete"},
         \A s \in Secret \ disturbed : command'.readings[s] = command.readings[s] \/ Tells(command'.readings[s], s)
  PROVE  SecretsKept'
<1>1. SUFFICES ASSUME NEW s \in Secret, s \notin disturbed' PROVE SecretKept(s)'
  BY DEF SecretsKept
<1>2. /\ command # None /\ command' # None /\ command'.kind = command.kind /\ native' = None
      /\ UNCHANGED <<keyring, manager, allowed, disturbed>>
  BY DEF GoesOn, SameCommand
<1>3. SecretKept(s)
  BY <1>1, <1>2 DEF SecretsKept
<1>4. \E base \in allowed'[s] : Follows(s, base)'
  BY <1>2, <1>3, GoesOnKeepsFollows DEF SecretKept
<1>5. Tells(command'.readings[s], s)
  BY <1>1, <1>2, <1>3 DEF SecretKept
<1> QED
  BY <1>2, <1>3, <1>4, <1>5, GoesOnTodo DEF SecretKept, Tells

LEMMA GoesOnKeepsRest ==
  ASSUME TypeOK, Planned, Down, GoesOn
  PROVE  Planned' /\ Down' /\ (disk' \in [file : File, durable : File, temporary : File \cup {None}] => TypeOK')
<1>1. command' \in Commands /\ command'.kind = command.kind /\ command # None
  BY DEF GoesOn, SameCommand
<1> QED
  BY <1>1 DEF GoesOn, Planned, Down, TypeOK

-----------------------------------------------------------------------------
(* The steps of the file.                                                  *)

(* A step of the file is the turn of a save that has no call under way, the *)
(* settings are loaded by a launch.                                         *)
LEMMA FileTurn ==
  ASSUME TypeOK, Tasks, NEW do \in FileTasks \cup {"load"}, Doing(do)
  PROVE  /\ native = None /\ command # None /\ command \in Commands /\ Ordered(command) /\ command.todo # <<>>
         /\ command.todo \in Rows /\ command.todo[1].do = do /\ 1 \in 1 .. Len(command.todo) /\ do \notin Mutations
         /\ command.kind = (IF do = "load" THEN "launch" ELSE "save")
<1>1. command # None /\ command \in Commands /\ Ordered(command) /\ command.todo # <<>> /\ Head(command.todo).do = do
  BY DEF Doing, TypeOK, Tasks
<1>2. command.todo \in Rows
  BY <1>1 DEF Commands, Rows
<1>3. 1 \in 1 .. Len(command.todo) /\ command.todo[1].do = do
  BY <1>1, <1>2, RowHead
<1>4. do \notin {"update", "add", "delete", "presence", "read"} \cup Mutations
  BY DEF FileTasks, Mutations
<1>5. native = None
  <2>1. SUFFICES ASSUME native # None PROVE FALSE
    OBVIOUS
  <2>2. command.todo[1].do = (IF native.op = "add" THEN "update" ELSE native.op) /\ native \in NativeCalls
    BY <2>1, ServedTask
  <2> QED
    BY <1>3, <1>4, <2>2 DEF NativeCalls
<1>6. command.kind = (IF do = "load" THEN "launch" ELSE "save")
  <2>1. CASE do = "load"
    BY <1>1, <1>3, <2>1 DEF Ordered
  <2>2. CASE do # "load"
    BY <1>1, <1>3, <2>2 DEF Ordered, NoFile
  <2> QED
    BY <2>1, <2>2
<1> QED
  BY <1>1, <1>2, <1>3, <1>4, <1>5, <1>6

(* How many steps of the file are left. *)
LEMMA FilePlace ==
  ASSUME TypeOK, Tasks, NEW do \in FileTasks, Doing(do), ~command.failed
  PROVE  LET n == Len(command.todo)  m == FileStepsOf IN
         /\ n \in Nat /\ m \in {3, 5} /\ (Keeps <=> m = 5)
         /\ do = "write" => n = m
         /\ do = "sync" => n = m - 1
         /\ do = "rename" => n = m - 2
         /\ do = "secure" => n = m - 3
         /\ do = "flush" => n = m - 4 /\ m = 5
<1> DEFINE n == Len(command.todo)
           m == FileStepsOf
<1>1. command.kind = "save" /\ Ordered(command) /\ command.todo \in Rows /\ command.todo # <<>> /\ command.todo[1].do = do
      /\ 1 \in 1 .. Len(command.todo)
  BY FileTurn DEF FileTasks
<1>2. Places(command.todo)
  BY <1>1 DEF Ordered
<1>3. n \in Nat /\ n > 0 /\ m \in {3, 5} /\ (Keeps <=> m = 5)
  BY <1>1, RowHead DEF FileStepsOf
<1>4. n - 1 < m /\ do = FileTaskLeft(n - 1)
  BY <1>1, <1>2 DEF Places
<1> HIDE DEF n, m
<1>5. CASE Keeps
  <2>1. n - 1 \in 0 .. 4 /\ m = 5
    BY <1>3, <1>4, <1>5
  <2> QED
    BY <1>3, <1>4, <1>5, <2>1 DEF FileTaskLeft, n, m
<1>6. CASE ~Keeps
  <2>1. n - 1 \in 0 .. 2 /\ m = 3
    BY <1>3, <1>4, <1>6
  <2> QED
    BY <1>3, <1>4, <1>6, <2>1 DEF FileTaskLeft, n, m
<1> QED
  BY <1>5, <1>6

LEMMA FileStepGoesOn ==
  ASSUME TypeOK, Tasks, NEW do \in FileTasks, NEW d, FileStep(do, d)
  PROVE  /\ Doing(do) /\ ~command.failed /\ native = None /\ GoesOn /\ disk' = d
         /\ command'.todo = Tail(command.todo) /\ command'.readings = command.readings
         /\ command.kind = "save"
<1>1. Doing(do) /\ ~command.failed /\ disk' = d /\ command' = Done(command)
      /\ UNCHANGED <<host, keyring, orphans, native, manager, allowed, owed, disturbed, left>>
  BY DEF FileStep
<1>2. /\ native = None /\ command # None /\ command \in Commands /\ Ordered(command) /\ command.todo # <<>>
      /\ command.todo[1].do = do /\ do \notin Mutations /\ command.kind = "save"
  BY <1>1, FileTurn DEF FileTasks
<1>3. SameCommand(command, command') /\ command'.todo = Tail(command.todo) /\ command'.failed = command.failed
      /\ command'.readings = command.readings
  BY <1>1, <1>2, DoneEffect
<1>4. command' # None
  BY <1>3, PublicSettingsAssumption DEF PublicSettingsAssumption, SameCommand
<1>5. GoesOn
  BY <1>1, <1>2, <1>3, <1>4 DEF GoesOn
<1> QED
  BY <1>1, <1>2, <1>3, <1>5

\* A step of the atomic replacement of the file.
Replaces == Write \/ Sync \/ Rename \/ Secure \/ Flush

LEMMA ReplaceKeepsFile ==
  ASSUME TypeOK, Tasks, FileKept, Replaces
  PROVE  /\ GoesOn /\ native = None /\ command'.readings = command.readings /\ FileKept'
         /\ disk' \in [file : File, durable : File, temporary : File \cup {None}]
<1> DEFINE n == Len(command.todo)
           m == FileStepsOf
<1>1. /\ disk \in [file : File, durable : File, temporary : File \cup {None}]
      /\ disk.file \in File /\ disk.durable \in File /\ disk.temporary \in File \cup {None}
  BY DEF TypeOK
<1>2. Begun \in Nat
  BY PublicSettingsAssumption DEF TypeOK, Begun, PublicSettingsAssumption
<1>3. {"write", "sync", "rename", "secure", "flush"} \subseteq FileTasks
  BY DEF FileTasks
<1>4. PICK do \in FileTasks : /\ Doing(do) /\ ~command.failed
                             /\ \/ do = "write" /\ FileStep(do, [disk EXCEPT !.temporary = Written(command)])
                                \/ do = "sync" /\ FileStep(do, [disk EXCEPT !.temporary = Synced(disk.temporary)])
                                \/ do = "rename" /\ FileStep(do, [disk EXCEPT !.file = disk.temporary, !.temporary = None])
                                \/ do = "secure" /\ FileStep(do, disk)
                                \/ do = "flush" /\ FileStep(do, [disk EXCEPT !.durable = disk.file])
  BY <1>3 DEF Replaces, Write, Sync, Rename, Secure, Flush, FileStep
<1>5. /\ GoesOn /\ native = None /\ command'.todo = Tail(command.todo) /\ command'.readings = command.readings
      /\ command.kind = "save" /\ command # None /\ ~command.failed /\ command.todo # <<>>
  BY <1>4, FileStepGoesOn DEF Doing
<1>6. /\ UNCHANGED <<host, manager, owed, left>> /\ command'.number = command.number /\ command'.kind = "save"
      /\ Begun' = Begun /\ (Keeps' <=> Keeps) /\ FileStepsOf' = m /\ command \in Commands /\ command.todo \in Rows
  BY <1>5 DEF GoesOn, SameCommand, Begun, Keeps, FileStepsOf, Commands, Rows
<1>7. /\ n \in Nat /\ m \in {3, 5} /\ (Keeps <=> m = 5)
      /\ do = "write" => n = m
      /\ do = "sync" => n = m - 1
      /\ do = "rename" => n = m - 2
      /\ do = "secure" => n = m - 3
      /\ do = "flush" => n = m - 4 /\ m = 5
  BY <1>4, FilePlace
<1>8. Len(command'.todo) = n - 1
  BY <1>5, <1>6, RowHead
<1>9. /\ command.number = Begun
      /\ n < m /\ n >= m - 2 => disk.temporary # None /\ disk.temporary.stamp = command.number /\ disk.temporary.whole
      /\ n = m - 2 => disk.temporary.synced
      /\ n <= m - 3 => disk.file.stamp = command.number /\ disk.file.whole
  BY <1>5 DEF FileKept, SaveProgress
<1>10. /\ disk.file.stamp <= Begun /\ disk.durable.stamp <= Begun /\ disk.file.synced /\ disk.durable.synced
       /\ owed # None =>
            /\ disk.file.whole /\ owed <= disk.file.stamp /\ manager.settings <= disk.file.stamp
            /\ disk.durable.whole /\ (Keeps => owed <= disk.durable.stamp)
       /\ ~Keeps => owed # None
       /\ ~manager.up => manager.settings = 0
  BY DEF FileKept
<1>11. /\ disk.file.stamp \in Nat /\ disk.durable.stamp \in Nat /\ manager.settings \in Nat /\ owed \in Nat \cup {None}
  BY DEF TypeOK, File
<1> DEFINE FileGoal == /\ disk' \in [file : File, durable : File, temporary : File \cup {None}]
                       /\ disk'.file.stamp <= Begun /\ disk'.durable.stamp <= Begun
                       /\ disk'.file.synced /\ disk'.durable.synced
                       /\ owed # None =>
                            /\ disk'.file.whole /\ owed <= disk'.file.stamp /\ manager.settings <= disk'.file.stamp
                            /\ disk'.durable.whole /\ (Keeps => owed <= disk'.durable.stamp)
           SaveGoal == /\ n - 1 < m /\ n - 1 >= m - 2 =>
                            disk'.temporary # None /\ disk'.temporary.stamp = command.number /\ disk'.temporary.whole
                       /\ n - 1 = m - 2 => disk'.temporary.synced
                       /\ n - 1 <= m - 3 => disk'.file.stamp = command.number /\ disk'.file.whole
                       /\ n - 1 = 0 => disk'.durable = disk'.file \/ ~Keeps
<1> HIDE DEF n, m, FileGoal, SaveGoal
<1> SUFFICES FileGoal /\ SaveGoal
  <2>1. ASSUME FileGoal, SaveGoal PROVE SaveProgress(command)'
    BY <1>6, <1>8, <2>1 DEF SaveProgress, SaveGoal, m
  <2>2. ASSUME FileGoal, SaveGoal PROVE FileKept'
    BY <1>6, <1>9, <1>10, <2>1, <2>2 DEF FileKept, FileGoal
  <2> QED
    BY <1>5, <2>2 DEF FileGoal
<1> USE DEF FileGoal, SaveGoal
<1>12. CASE do = "write"
  <2>1. disk' = [disk EXCEPT !.temporary = Written(command)]
    BY <1>4, <1>12 DEF FileStep
  <2>2. Written(command) \in File /\ Written(command).stamp = command.number /\ Written(command).whole
    BY <1>2, <1>9 DEF Written, File
  <2>3. Written(command) # None
    BY <2>2, PublicSettingsAssumption DEF PublicSettingsAssumption
  <2>4. disk'.file = disk.file /\ disk'.durable = disk.durable /\ disk'.temporary = Written(command)
        /\ disk' \in [file : File, durable : File, temporary : File \cup {None}]
    BY <1>1, <2>1, <2>2
  <2>5. FileGoal
    BY <1>10, <2>4
  <2>6. SaveGoal
    BY <1>7, <1>12, <2>2, <2>3, <2>4
  <2> QED
    BY <2>5, <2>6
<1>13. CASE do = "sync"
  <2>1. disk' = [disk EXCEPT !.temporary = Synced(disk.temporary)]
    BY <1>4, <1>13 DEF FileStep
  <2>2. disk.temporary \in File /\ disk.temporary.stamp = command.number /\ disk.temporary.whole
    BY <1>1, <1>7, <1>9, <1>13
  <2>3. /\ Synced(disk.temporary) \in File /\ Synced(disk.temporary).stamp = command.number /\ Synced(disk.temporary).whole
        /\ Synced(disk.temporary).synced
    BY <2>2 DEF Synced, File
  <2>4. Synced(disk.temporary) # None
    BY <2>3, PublicSettingsAssumption DEF PublicSettingsAssumption
  <2>5. disk'.file = disk.file /\ disk'.durable = disk.durable /\ disk'.temporary = Synced(disk.temporary)
        /\ disk' \in [file : File, durable : File, temporary : File \cup {None}]
    BY <1>1, <2>1, <2>3
  <2>6. FileGoal
    BY <1>10, <2>5
  <2>7. SaveGoal
    BY <1>7, <1>13, <2>3, <2>4, <2>5
  <2> QED
    BY <2>6, <2>7
<1>14. CASE do = "rename"
  <2>1. disk' = [disk EXCEPT !.file = disk.temporary, !.temporary = None]
    BY <1>4, <1>14 DEF FileStep
  <2>2. disk.temporary \in File /\ disk.temporary.stamp = Begun /\ disk.temporary.whole /\ disk.temporary.synced
    BY <1>1, <1>7, <1>9, <1>14
  <2>3. disk'.file = disk.temporary /\ disk'.durable = disk.durable
        /\ disk' \in [file : File, durable : File, temporary : File \cup {None}]
    BY <1>1, <2>1, <2>2
  <2>4. FileGoal
    BY <1>2, <1>10, <1>11, <2>2, <2>3
  <2>5. SaveGoal
    BY <1>7, <1>9, <1>14, <2>2, <2>3
  <2> QED
    BY <2>4, <2>5
<1>15. CASE do = "secure"
  <2>1. disk' = disk
    BY <1>4, <1>15 DEF FileStep
  <2>2. FileGoal
    BY <1>1, <1>10, <2>1
  <2>3. SaveGoal
    BY <1>7, <1>9, <1>15, <2>1
  <2> QED
    BY <2>2, <2>3
<1>16. CASE do = "flush"
  <2>1. disk' = [disk EXCEPT !.durable = disk.file]
    BY <1>4, <1>16 DEF FileStep
  <2>2. disk'.file = disk.file /\ disk'.durable = disk.file
        /\ disk' \in [file : File, durable : File, temporary : File \cup {None}]
    BY <1>1, <2>1
  <2>3. FileGoal
    BY <1>10, <2>2
  <2>4. SaveGoal
    BY <1>7, <1>9, <1>16, <2>2
  <2> QED
    BY <2>3, <2>4
<1> QED
  BY <1>4, <1>12, <1>13, <1>14, <1>15, <1>16

LEMMA FileFailsKeepsFile ==
  ASSUME TypeOK, Tasks, FileKept, FileFails
  PROVE  /\ GoesOn /\ native = None /\ command'.readings = command.readings /\ FileKept'
         /\ disk' \in [file : File, durable : File, temporary : File \cup {None}]
<1>1. PICK do \in FileTasks : Doing(do)
  BY DEF FileFails
<1>2. /\ native = None /\ command # None /\ command \in Commands /\ Ordered(command) /\ command.todo # <<>>
      /\ command.todo[1].do \notin Mutations
  BY <1>1, FileTurn
<1>3. /\ command' = [command EXCEPT !.failed = TRUE, !.todo = <<>>] /\ disk' = [disk EXCEPT !.temporary = None]
      /\ UNCHANGED <<host, keyring, orphans, native, manager, allowed, owed, disturbed, left>>
  BY DEF FileFails
<1>4. /\ SameCommand(command, command') /\ command'.failed /\ command'.todo = <<>> /\ command'.readings = command.readings
      /\ command'.settings = command.settings
  <2>1. <<>> \in Seq([do : Do, secret : Secret \cup {None}])
    OBVIOUS
  <2> QED
    BY <1>2, <1>3, <2>1 DEF SameCommand, Commands
<1>5. command' # None
  BY <1>4, PublicSettingsAssumption DEF PublicSettingsAssumption, SameCommand
<1>6. GoesOn
  BY <1>2, <1>3, <1>4, <1>5 DEF GoesOn
<1>7. disk' \in [file : File, durable : File, temporary : File \cup {None}] /\ disk'.file = disk.file /\ disk'.durable = disk.durable
  BY <1>3 DEF TypeOK
<1>8. FileKept'
  BY <1>2, <1>3, <1>4, <1>7 DEF FileKept, SameCommand, Begun, Keeps
<1> QED
  BY <1>2, <1>4, <1>6, <1>7, <1>8

LEMMA LoadedEffect ==
  ASSUME NEW c \in Commands, NEW settings \in Nat
  PROVE  LET d == [c EXCEPT !.settings = settings] IN
         SameCommand(c, d) /\ d.todo = c.todo /\ d.failed = c.failed /\ d.readings = c.readings /\ d.settings = settings
BY DEF SameCommand, Commands

LEMMA LoadKeepsFile ==
  ASSUME TypeOK, Tasks, FileKept, Load
  PROVE  /\ GoesOn /\ native = None /\ command'.readings = command.readings /\ FileKept'
         /\ disk' \in [file : File, durable : File, temporary : File \cup {None}]
<1>1. /\ native = None /\ command # None /\ command \in Commands /\ Ordered(command) /\ command.todo # <<>>
      /\ command.todo[1].do \notin Mutations /\ command.kind = "launch"
  BY FileTurn DEF Load
<1>2. UNCHANGED <<host, keyring, orphans, native, manager, allowed, owed, disturbed, left>>
  BY DEF Load
<1>3. /\ SameCommand(command, Done(command)) /\ Done(command).todo = Tail(command.todo) /\ Done(command).failed = command.failed
      /\ Done(command).readings = command.readings /\ Done(command).settings = command.settings /\ Done(command) \in Commands
  BY <1>1, DoneEffect DEF SameCommand
<1>4. disk.file.stamp \in Nat /\ disk.file \in File /\ disk \in [file : File, durable : File, temporary : File \cup {None}]
  BY DEF TypeOK, File
<1>5. /\ SameCommand(command, command') /\ command'.todo = Tail(command.todo) /\ command'.failed = command.failed
      /\ command'.readings = command.readings
      /\ \/ disk' = disk /\ command'.settings \in {0, disk.file.stamp}
         \/ ~disk.file.whole /\ disk' = [disk EXCEPT !.file = Absent]
  <2>1. CASE command' = [Done(command) EXCEPT !.settings = disk.file.stamp] /\ UNCHANGED disk
    <3>1. SameCommand(Done(command), command') /\ command'.todo = Done(command).todo /\ command'.failed = Done(command).failed
          /\ command'.readings = Done(command).readings /\ command'.settings = disk.file.stamp
      BY <1>3, <1>4, <2>1, LoadedEffect
    <3> QED
      BY <1>3, <2>1, <3>1 DEF SameCommand
  <2>2. CASE command' = [Done(command) EXCEPT !.settings = 0] /\ UNCHANGED disk
    <3>1. SameCommand(Done(command), command') /\ command'.todo = Done(command).todo /\ command'.failed = Done(command).failed
          /\ command'.readings = Done(command).readings /\ command'.settings = 0
      BY <1>3, <2>2, LoadedEffect
    <3> QED
      BY <1>3, <2>2, <3>1 DEF SameCommand
  <2>3. CASE ~disk.file.whole /\ command' = Done(command) /\ disk' = [disk EXCEPT !.file = Absent]
    BY <1>3, <2>3
  <2> QED
    BY <2>1, <2>2, <2>3 DEF Load
<1>6. command' # None
  BY <1>5, PublicSettingsAssumption DEF PublicSettingsAssumption, SameCommand
<1>7. GoesOn
  BY <1>1, <1>2, <1>5, <1>6 DEF GoesOn
<1>8. Absent \in File /\ Absent.stamp = 0 /\ Absent.synced
  BY DEF Absent, File
<1>9. Begun \in Nat
  BY PublicSettingsAssumption DEF TypeOK, Begun, PublicSettingsAssumption
<1>10. CASE disk' = disk /\ command'.settings \in {0, disk.file.stamp}
  <2>1. command'.settings <= disk.file.stamp
    BY <1>4, <1>10
  <2>2. FileKept'
    BY <1>1, <1>2, <1>5, <1>10, <2>1 DEF FileKept, SameCommand, Begun, Keeps
  <2> QED
    BY <1>1, <1>4, <1>5, <1>7, <1>10, <2>2
<1>11. CASE ~disk.file.whole /\ disk' = [disk EXCEPT !.file = Absent]
  <2>1. owed = None
    BY <1>11 DEF FileKept
  <2>2. disk'.file = Absent /\ disk'.durable = disk.durable /\ disk' \in [file : File, durable : File, temporary : File \cup {None}]
    BY <1>4, <1>8, <1>11
  <2>3. FileKept'
    BY <1>1, <1>2, <1>5, <1>8, <1>9, <2>1, <2>2 DEF FileKept, SameCommand, Begun, Keeps
  <2> QED
    BY <1>1, <1>5, <1>7, <2>2, <2>3
<1> QED
  BY <1>5, <1>10, <1>11

-----------------------------------------------------------------------------
(* A call returns to its command.                                          *)

LEMMA ReturnedCall ==
  ASSUME Inv, StoreReturns
  PROVE  /\ native \in NativeCalls /\ native # None /\ native.result \in Results(native.op) /\ native.result # None
         /\ command \in Commands /\ command # None /\ Ordered(command) /\ command.todo \in Rows /\ command.todo # <<>>
         /\ 1 \in 1 .. Len(command.todo) /\ command.todo[1].secret = native.secret /\ native.value = command.number
         /\ command.todo[1].do = (IF native.op = "add" THEN "update" ELSE native.op)
         /\ host.system \in System /\ Keeps /\ native.secret \in Secret /\ native.value \in Nat /\ native.op \in Ops
         /\ UNCHANGED <<host, keyring, orphans, disk, manager, allowed, owed, disturbed, left>>
<1>1. /\ native # None /\ native.result # None /\ TypeOK /\ Tasks /\ Planned
      /\ UNCHANGED <<host, keyring, orphans, disk, manager, allowed, owed, disturbed, left>>
  BY DEF StoreReturns, Inv
<1>2. /\ command \in Commands /\ command # None /\ Ordered(command) /\ 1 \in 1 .. Len(command.todo) /\ native \in NativeCalls
      /\ command.todo[1].secret = native.secret /\ native.secret \in Secret /\ native.value = command.number
      /\ command.todo[1].do = (IF native.op = "add" THEN "update" ELSE native.op)
  BY <1>1, ServedTask
<1>3. native.value \in Nat /\ native.op \in Ops /\ command.todo \in Rows /\ command.todo # <<>>
  BY <1>1, <1>2 DEF NativeCalls, Ops, Commands, Rows, Tasks, Serves
<1>4. host.system \in System /\ Keeps
  BY <1>1, <1>2, <1>3, StoreHasSystem DEF Ops
<1>5. native.result \in Results(native.op)
  BY <1>1 DEF Planned
<1> QED
  BY <1>1, <1>2, <1>3, <1>4, <1>5

(* What cannot be updated is added. *)
LEMMA AddKeepsInv ==
  ASSUME Inv, StoreReturns, Adds(native)
  PROVE  Inv'
<1>1. /\ native \in NativeCalls /\ native # None /\ native.result \in Results(native.op)
      /\ command \in Commands /\ command # None /\ Ordered(command) /\ command.todo # <<>>
      /\ 1 \in 1 .. Len(command.todo) /\ command.todo[1].secret = native.secret /\ native.value = command.number
      /\ command.todo[1].do = (IF native.op = "add" THEN "update" ELSE native.op)
      /\ host.system \in System /\ native.secret \in Secret /\ native.value \in Nat
      /\ UNCHANGED <<host, keyring, orphans, disk, manager, allowed, owed, disturbed, left>>
  BY ReturnedCall
<1>2. native.op = "update" /\ native.result = "not found"
  BY DEF Adds
<1>3. command' = command /\ native' = NativeCall("add", native.secret, native.value)
  BY DEF StoreReturns
<1>4. /\ native' \in NativeCalls /\ native'.op = "add" /\ native'.secret = native.secret /\ native'.value = native.value
      /\ native'.result = None /\ PlanOf("add", native'.plan)
  BY <1>1, <1>3, NewCall DEF Ops
<1>5. None \notin NativeCalls /\ None \notin Result
  BY PublicSettingsAssumption DEF PublicSettingsAssumption
<1>6. TypeOK'
  BY <1>1, <1>3, <1>4 DEF Inv, TypeOK
<1>7. Tasks'
  <2>1. Ordered(command)'
    BY <1>1, <1>3 DEF Ordered, Places, FileStepsOf, FileTaskLeft, Keeps
  <2>2. Serves'
    BY <1>1, <1>2, <1>3, <1>4 DEF Inv, Tasks, Serves
  <2> QED
    BY <2>1, <2>2 DEF Tasks
<1>8. FileKept'
  BY <1>1, <1>3 DEF Inv, FileKept, SaveProgress, FileStepsOf, Begun, Keeps
<1>9. Planned'
  BY <1>1, <1>4 DEF Inv, Planned
<1>10. Down'
  BY <1>1, <1>3 DEF Inv, Down
<1>11. SecretsKept'
  <2>1. SUFFICES ASSUME NEW s \in Secret, s \notin disturbed' PROVE SecretKept(s)'
    BY DEF SecretsKept
  <2>2. SecretKept(s)
    BY <1>1, <2>1 DEF Inv, SecretsKept
  <2>3. PICK base \in allowed[s] : Follows(s, base)
    BY <1>1, <2>2 DEF SecretKept
  <2>4. Follows(s, base)'
    <3>1. CASE native.secret = s
      <4>1. Changing(s) /\ Changing(s)'
        BY <1>1, <1>2, <1>4, <1>5, <3>1 DEF Changing
      <4>2. DuringChange(native, base, keyring[s])
        BY <2>3, <4>1 DEF Follows
      <4>3. DuringChange(native', base, keyring'[s])
        BY <1>1, <1>2, <1>4, <1>5, <4>2 DEF DuringChange, Result
      <4> QED
        BY <4>1, <4>3 DEF Follows, DuringChange
    <3>2. CASE native.secret # s
      <4>1. ~Changing(s) /\ ~Changing(s)'
        BY <1>4, <3>2 DEF Changing
      <4> QED
        BY <1>1, <1>3, <2>3, <4>1 DEF Follows, Pending
    <3> QED
      BY <3>1, <3>2
  <2>5. native'.op # "presence"
    BY <1>4
  <2> QED
    BY <1>1, <1>3, <2>2, <2>3, <2>4, <2>5 DEF SecretKept, Tells
<1> QED
  BY <1>6, <1>7, <1>8, <1>9, <1>10, <1>11 DEF Inv
(* A reading. *)
LEMMA ReadEffect ==
  ASSUME PublicSettingsAssumption, NEW c \in Commands, c.todo # <<>>, NEW n \in NativeCalls, n.op = "presence",
         n.result \in Results(n.op)
  PROVE  /\ SameCommand(c, Read(c, n)) /\ Read(c, n).todo = Tail(c.todo) /\ (c.failed => Read(c, n).failed)
         /\ Read(c, n).settings = c.settings
         /\ \A s \in Secret : s # n.secret => Read(c, n).readings[s] = c.readings[s]
         /\ Read(c, n).readings[n.secret] = (IF n.result \in {"present", "absent"} THEN n.result ELSE "unknown")
<1> DEFINE d == Done(c)
           f == c.failed \/ ~Succeeds(n)
           r == IF Succeeds(n) THEN n.result ELSE "unknown"
<1>1. /\ SameCommand(c, d) /\ d \in Commands /\ d.todo = Tail(c.todo) /\ d.failed = c.failed
      /\ d.readings = c.readings /\ d.settings = c.settings
  BY DoneEffect DEF SameCommand
<1>2. Succeeds(n) <=> n.result \in {"present", "absent"}
  BY DEF Succeeds, Results
<1>3. r = (IF n.result \in {"present", "absent"} THEN n.result ELSE "unknown") /\ r \in {"unknown", "present", "absent"}
  BY <1>2 DEF Results
<1>4. f \in BOOLEAN /\ (c.failed => f)
  OBVIOUS
<1>5. Read(c, n) = [d EXCEPT !.failed = f, !.readings = [d.readings EXCEPT ![n.secret] = r]]
  BY <1>1 DEF Read, Commands
<1> HIDE DEF d, f, r
<1>6. n.secret \in Secret /\ d.readings \in [Secret -> {"unknown", "present", "absent"}]
  BY <1>1 DEF NativeCalls, Commands, Readings
<1> DEFINE g == [d.readings EXCEPT ![n.secret] = r]
<1>7. g \in Readings /\ g[n.secret] = r /\ \A s \in Secret : s # n.secret => g[s] = d.readings[s]
  BY <1>3, <1>6 DEF Readings
<1> HIDE DEF g
<1>8. LET e == [d EXCEPT !.failed = f, !.readings = g] IN
      SameCommand(d, e) /\ e.todo = d.todo /\ e.failed = f /\ e.settings = d.settings /\ e.readings = g
  BY <1>1, <1>4, <1>7 DEF SameCommand, Commands
<1>9. Read(c, n) = [d EXCEPT !.failed = f, !.readings = g]
  BY <1>5 DEF g
<1> QED
  BY <1>1, <1>3, <1>4, <1>7, <1>8, <1>9 DEF SameCommand

(* The steps of the file are still to come when a call returns. *)
LEMMA ReturnKeepsFile ==
  ASSUME Inv, StoreReturns, command' \in Commands, SameCommand(command, command'), command'.settings = command.settings,
         command'.todo = Tail(command.todo) \/ command'.failed, command.failed => command'.failed
  PROVE  FileKept'
<1>1. /\ command \in Commands /\ command # None /\ Ordered(command) /\ command.todo \in Rows /\ command.todo # <<>>
      /\ 1 \in 1 .. Len(command.todo) /\ command.todo[1].do = (IF native.op = "add" THEN "update" ELSE native.op)
      /\ native.op \in Ops /\ Keeps
      /\ UNCHANGED <<host, keyring, orphans, disk, manager, allowed, owed, disturbed, left>>
  BY ReturnedCall
<1>2. FileKept
  BY DEF Inv
<1>3. command'.kind = command.kind /\ command'.number = command.number
  BY DEF SameCommand
<1>4. FileStepsOf' = FileStepsOf /\ FileStepsOf \in {3, 5} /\ (Keeps' <=> Keeps) /\ Begun' = Begun
  BY <1>1 DEF FileStepsOf, Keeps, Begun
<1>5. command.kind = "save" /\ ~command'.failed => SaveProgress(command)'
  <2>1. SUFFICES ASSUME command.kind = "save", ~command'.failed PROVE SaveProgress(command)'
    OBVIOUS
  <2>2. Places(command.todo) /\ command'.todo = Tail(command.todo)
    BY <1>1, <2>1 DEF Ordered
  <2>3. command.todo[1].do \notin FileTasks
    BY <1>1 DEF Ops, FileTasks
  <2>4. Len(command.todo) \in Nat /\ Len(command'.todo) = Len(command.todo) - 1
    BY <1>1, <2>2, RowHead
  <2>5. Len(command.todo) - 1 >= FileStepsOf
    <3>1. \A n \in Nat : FileTaskLeft(n) \in FileTasks
      BY DEF FileTaskLeft, FileTasks
    <3>2. Len(command.todo) - 1 \in Nat
      BY <1>1, <2>4
    <3>3. Len(command.todo) - 1 < FileStepsOf => command.todo[1].do = FileTaskLeft(Len(command.todo) - 1)
      BY <1>1, <2>2 DEF Places
    <3> QED
      BY <1>4, <2>3, <2>4, <3>1, <3>2, <3>3
  <2>6. Len(command'.todo) \in Nat /\ Len(command'.todo) >= FileStepsOf
    BY <1>4, <2>4, <2>5
  <2> QED
    BY <1>4, <2>6 DEF SaveProgress
<1> QED
  BY <1>1, <1>2, <1>3, <1>4, <1>5 DEF FileKept

LEMMA PresenceKeepsInv ==
  ASSUME Inv, StoreReturns, native.op = "presence"
  PROVE  Inv'
<1>1. /\ native \in NativeCalls /\ native # None /\ native.result \in Results(native.op) /\ native.result # None
      /\ command \in Commands /\ command # None /\ Ordered(command) /\ command.todo # <<>>
      /\ command.todo[1].do = "presence" /\ native.secret \in Secret
      /\ UNCHANGED <<host, keyring, orphans, disk, manager, allowed, owed, disturbed, left>>
  BY ReturnedCall
<1>2. command' = Read(command, native) /\ native' = None
  BY DEF StoreReturns, Adds
<1>3. /\ SameCommand(command, command') /\ command'.todo = Tail(command.todo) /\ (command.failed => command'.failed)
      /\ command'.settings = command.settings
      /\ \A s \in Secret : s # native.secret => command'.readings[s] = command.readings[s]
      /\ command'.readings[native.secret] = (IF native.result \in {"present", "absent"} THEN native.result ELSE "unknown")
  BY <1>1, <1>2, ReadEffect, PublicSettingsAssumption
<1>4. command' \in Commands /\ command' # None
  BY <1>3, PublicSettingsAssumption DEF PublicSettingsAssumption, SameCommand
<1>5. GoesOn
  BY <1>1, <1>2, <1>3, <1>4 DEF GoesOn, Mutations
<1>6. TypeOK /\ Tasks /\ FileKept /\ Planned /\ SecretsKept /\ Down
  BY DEF Inv
<1>7. \A s \in Secret \ disturbed : command'.readings[s] = command.readings[s] \/ Tells(command'.readings[s], s)
  <2>1. SUFFICES ASSUME NEW s \in Secret, s \notin disturbed, s = native.secret PROVE Tells(command'.readings[s], s)
    BY <1>3
  <2>2. SecretKept(s)
    BY <1>6, <2>1 DEF SecretsKept
  <2>3. native.result \in {"present", "absent"} => Tells(native.result, s)
    BY <1>1, <2>1, <2>2 DEF SecretKept
  <2> QED
    BY <1>3, <2>1, <2>3 DEF Tells
<1>8. SecretsKept'
  BY <1>5, <1>6, <1>7, GoesOnKeepsSecrets
<1>9. FileKept'
  BY <1>3, <1>4, ReturnKeepsFile
<1>10. Tasks'
  BY <1>5, GoesOnKeepsTasks
<1>11. disk' \in [file : File, durable : File, temporary : File \cup {None}]
  BY <1>1, <1>6 DEF TypeOK
<1>12. TypeOK' /\ Planned' /\ Down'
  BY <1>5, <1>6, <1>11, GoesOnKeepsRest
<1> QED
  BY <1>8, <1>9, <1>10, <1>12 DEF Inv

(* What was read or changed with success leaves the command at its next task. *)
LEMMA SuccessKeepsInv ==
  ASSUME Inv, StoreReturns, native.op # "presence", ~Adds(native), Succeeds(native)
  PROVE  Inv'
<1>1. /\ native \in NativeCalls /\ native # None /\ native.result \in Results(native.op) /\ native.result # None
      /\ command \in Commands /\ command # None /\ Ordered(command) /\ command.todo \in Rows /\ command.todo # <<>>
      /\ 1 \in 1 .. Len(command.todo) /\ command.todo[1].secret = native.secret /\ native.value = command.number
      /\ command.todo[1].do = (IF native.op = "add" THEN "update" ELSE native.op)
      /\ native.secret \in Secret /\ native.op \in Ops
      /\ UNCHANGED <<host, keyring, orphans, disk, manager, allowed, owed, disturbed, left>>
  BY ReturnedCall
<1>2. command' = Done(command) /\ native' = None
  BY DEF StoreReturns
<1>3. /\ SameCommand(command, command') /\ command'.todo = Tail(command.todo) /\ command'.failed = command.failed
      /\ command'.readings = command.readings /\ command'.settings = command.settings
  BY <1>1, <1>2, DoneEffect
<1>4. command' \in Commands /\ command' # None
  BY <1>3, PublicSettingsAssumption DEF PublicSettingsAssumption, SameCommand
<1>5. TypeOK /\ Tasks /\ FileKept /\ Planned /\ SecretsKept /\ Down
  BY DEF Inv
<1>6. FileKept'
  BY <1>3, <1>4, ReturnKeepsFile
<1>7. CASE native.op = "read"
  <2>1. command.todo[1].do \notin Mutations
    BY <1>1, <1>7 DEF Mutations
  <2>2. GoesOn
    BY <1>1, <1>2, <1>3, <1>4, <2>1 DEF GoesOn
  <2>3. SecretsKept'
    BY <1>3, <1>5, <1>7, <2>2, GoesOnKeepsSecrets
  <2>4. Tasks'
    BY <2>2, GoesOnKeepsTasks
  <2>5. disk' \in [file : File, durable : File, temporary : File \cup {None}]
    BY <1>1, <1>5 DEF TypeOK
  <2>6. TypeOK' /\ Planned' /\ Down'
    BY <1>5, <2>2, <2>5, GoesOnKeepsRest
  <2> QED
    BY <1>6, <2>3, <2>4, <2>6 DEF Inv
<1>8. CASE native.op \in {"update", "add", "delete"}
  <2>1. TypeOK'
    BY <1>1, <1>2, <1>4, <1>5 DEF TypeOK
  <2>2. Tasks'
    <3>1. Ordered(command')
      BY <1>1, <1>3, OrderedTail
    <3>2. Ordered(command)'
      BY <1>1, <3>1 DEF Ordered, Places, FileStepsOf, FileTaskLeft, Keeps
    <3> QED
      BY <1>2, <3>2 DEF Tasks, Serves
  <2>3. Planned'
    BY <1>1, <1>2, <1>5 DEF Planned
  <2>4. Down'
    BY <1>1, <1>3, <1>5 DEF Down, SameCommand
  <2>5. command.todo[1].do \in Mutations
    BY <1>1, <1>8 DEF Mutations
  <2>6. /\ Len(command.todo) \in Nat /\ Len(command'.todo) = Len(command.todo) - 1
        /\ \A i \in 1 .. Len(command.todo) - 1 : command'.todo[i] = command.todo[i + 1] /\ i + 1 \in 1 .. Len(command.todo)
    BY <1>1, <1>3, RowHead
  <2>7. ChangesFirst(command.todo, command.changes)
    BY <1>1 DEF Ordered
  <2>8. SecretsKept'
    <3>1. SUFFICES ASSUME NEW s \in Secret, s \notin disturbed' PROVE SecretKept(s)'
      BY DEF SecretsKept
    <3>2. SecretKept(s) /\ command'.kind = command.kind /\ command'.changes = command.changes /\ command'.number = command.number
      BY <1>1, <1>3, <1>5, <3>1 DEF SecretsKept, SameCommand
    <3>3. command.readings[s] = "unknown"
      BY <1>1, <2>5, <3>2 DEF SecretKept
    <3>4. PICK base \in allowed[s] : Follows(s, base)
      BY <1>1, <3>2 DEF SecretKept
    <3>5. ~Changing(s)'
      BY <1>2 DEF Changing
    <3>6. CASE s = native.secret
      <4>1. Changing(s)
        BY <1>1, <1>8, <3>6 DEF Changing
      <4>2. DuringChange(native, base, keyring[s])
        BY <3>4, <4>1 DEF Follows
      <4>3. command.changes[s] = (IF native.op = "add" THEN "update" ELSE native.op)
        BY <1>1, <1>5, <1>8, <3>6, ServedChange
      <4>4. keyring[s] \in Effects(command.changes[s], command.number, base)
        <5>1. CASE native.op = "delete"
          <6>1. native.result \in {"ok", "not found"}
            BY <1>1, <5>1 DEF Results, Succeeds
          <6>2. keyring[s] = {}
            BY <4>2, <5>1, <6>1 DEF DuringChange
          <6> QED
            BY <4>3, <5>1, <6>2 DEF Effects
        <5>2. CASE native.op \in {"update", "add"}
          <6>1. native.result = "ok"
            BY <1>1, <5>2 DEF Results, Succeeds
          <6>2. native.result \notin {None, "not found"}
            BY <1>1, <6>1
          <6>3. keyring[s] \in Created(base, native.value)
            BY <4>2, <5>2, <6>1, <6>2 DEF DuringChange
          <6> QED
            BY <1>1, <4>3, <5>2, <6>3 DEF Effects
        <5> QED
          BY <1>8, <5>1, <5>2
      <4>5. ~Pending(s)'
        <5>1. SUFFICES ASSUME NEW i \in 1 .. Len(command'.todo), command'.todo[i].do \in Mutations, command'.todo[i].secret = s
                       PROVE  FALSE
          BY DEF Pending
        <5>2. command'.todo[i] = command.todo[i + 1] /\ i + 1 \in 1 .. Len(command.todo) /\ 1 < i + 1
          BY <2>6, <5>1
        <5> QED
          BY <1>1, <2>7, <3>6, <5>1, <5>2 DEF ChangesFirst
      <4>6. command.changes[s] \in Change
        BY <1>1 DEF Commands
      <4>7. keyring[s] \in MayLeave(command.changes[s], command.number, base)
        BY <4>4, <4>6, EffectsMayLeave
      <4>8. Follows(s, base)'
        BY <1>1, <3>2, <3>5, <4>4, <4>5, <4>7 DEF Follows
      <4> QED
        BY <1>1, <1>2, <1>3, <1>4, <1>5, <1>8, <3>2, <3>3, <3>4, <4>8, ServedChange DEF SecretKept, Tells
    <3>7. CASE s # native.secret
      <4>1. ~Changing(s)
        BY <3>7 DEF Changing
      <4>2. Pending(s)' <=> Pending(s)
        <5>1. ASSUME NEW i \in 1 .. Len(command'.todo), command'.todo[i].do \in Mutations, command'.todo[i].secret = s
              PROVE  i + 1 \in 1 .. Len(command.todo) /\ command.todo[i + 1].do \in Mutations /\ command.todo[i + 1].secret = s
          BY <2>6, <5>1
        <5>2. ASSUME NEW i \in 1 .. Len(command.todo), command.todo[i].do \in Mutations, command.todo[i].secret = s
              PROVE  i - 1 \in 1 .. Len(command'.todo) /\ command'.todo[i - 1].do \in Mutations /\ command'.todo[i - 1].secret = s
          <6>1. i # 1
            BY <1>1, <3>7, <5>2
          <6>2. i - 1 \in 1 .. Len(command.todo) - 1 /\ (i - 1) + 1 = i
            BY <2>6, <6>1
          <6> QED
            BY <2>6, <5>2, <6>2
        <5> QED
          BY <3>2, <5>1, <5>2 DEF Pending
      <4>3. Follows(s, base)'
        BY <1>1, <1>3, <3>2, <3>4, <3>5, <4>1, <4>2 DEF Follows
      <4> QED
        BY <1>1, <1>2, <1>3, <1>4, <1>5, <1>8, <3>2, <3>3, <3>4, <4>3, ServedChange DEF SecretKept, Tells
    <3> QED
      BY <3>6, <3>7
  <2> QED
    BY <1>6, <2>1, <2>2, <2>3, <2>4, <2>8 DEF Inv
<1> QED
  BY <1>1, <1>7, <1>8 DEF Ops

(* A command that fails. *)
LEMMA FailedEffect ==
  ASSUME NEW c \in Commands, NEW n
  PROVE  /\ SameCommand(c, Failed(c, n)) /\ Failed(c, n).failed /\ Failed(c, n).readings = c.readings
         /\ Failed(c, n).settings = c.settings
         /\ n.op = "read" => Failed(c, n).todo = <<>>
         /\ \A i \in 1 .. Len(Failed(c, n).todo) : Failed(c, n).todo[i].do = "presence" /\ Failed(c, n).todo[i].secret \in Secret
<1> DEFINE q == IF n.op = "read" THEN <<>> ELSE Both("presence")
<1>1. "presence" \in Do
  BY DEF Do
<1>2. q \in Rows /\ (n.op = "read" => q = <<>>) /\ \A i \in 1 .. Len(q) : q[i].do = "presence" /\ q[i].secret \in Secret
  <2>1. CASE n.op = "read"
    BY <2>1 DEF Rows
  <2>2. CASE n.op # "read"
    <3> DEFINE b == Both("presence")
    <3>1. b \in Rows /\ Len(b) = 2
      BY <1>1, BothTasks
    <3>2. \A i \in 1 .. 2 : b[i].do = "presence" /\ b[i].secret \in Secret
      BY <1>1, BothTasks, Zenon
    <3>3. q = b
      BY <2>2
    <3> HIDE DEF b, q
    <3> QED
      BY <2>2, <3>1, <3>2, <3>3
  <2> QED
    BY <2>1, <2>2
<1>3. Failed(c, n) = [c EXCEPT !.failed = TRUE, !.todo = q]
  BY DEF Failed
<1> HIDE DEF q
<1>4. LET e == [c EXCEPT !.failed = TRUE, !.todo = q] IN
      SameCommand(c, e) /\ e.failed /\ e.todo = q /\ e.readings = c.readings /\ e.settings = c.settings
  BY <1>2 DEF SameCommand, Commands, Rows
<1> QED
  BY <1>2, <1>3, <1>4

LEMMA FailureKeepsInv ==
  ASSUME Inv, StoreReturns, native.op # "presence", ~Adds(native), ~Succeeds(native)
  PROVE  Inv'
<1>1. /\ native \in NativeCalls /\ native # None /\ native.result # None
      /\ command \in Commands /\ command # None /\ Ordered(command) /\ command.todo # <<>>
      /\ 1 \in 1 .. Len(command.todo) /\ command.todo[1].secret = native.secret
      /\ command.todo[1].do = (IF native.op = "add" THEN "update" ELSE native.op)
      /\ native.secret \in Secret /\ native.op \in Ops /\ Keeps
      /\ UNCHANGED <<host, keyring, orphans, disk, manager, allowed, owed, disturbed, left>>
  BY ReturnedCall
<1>2. command' = Failed(command, native) /\ native' = None
  BY DEF StoreReturns
<1>3. /\ SameCommand(command, command') /\ command'.failed /\ command'.readings = command.readings
      /\ command'.settings = command.settings
      /\ native.op = "read" => command'.todo = <<>>
      /\ \A i \in 1 .. Len(command'.todo) : command'.todo[i].do = "presence" /\ command'.todo[i].secret \in Secret
  BY <1>1, <1>2, FailedEffect
<1>4. command' \in Commands /\ command' # None
  BY <1>3, PublicSettingsAssumption DEF PublicSettingsAssumption, SameCommand
<1>5. TypeOK /\ Tasks /\ FileKept /\ Planned /\ SecretsKept /\ Down
  BY DEF Inv
<1>6. FileKept'
  BY <1>3, <1>4, ReturnKeepsFile
<1>7. CASE native.op = "read"
  <2>1. command.todo[1].do \notin Mutations
    BY <1>1, <1>7 DEF Mutations
  <2>2. GoesOn
    BY <1>1, <1>2, <1>3, <1>4, <1>7, <2>1 DEF GoesOn
  <2>3. SecretsKept'
    BY <1>3, <1>5, <1>7, <2>2, GoesOnKeepsSecrets
  <2>4. Tasks'
    BY <2>2, GoesOnKeepsTasks
  <2>5. disk' \in [file : File, durable : File, temporary : File \cup {None}]
    BY <1>1, <1>5 DEF TypeOK
  <2>6. TypeOK' /\ Planned' /\ Down'
    BY <1>5, <2>2, <2>5, GoesOnKeepsRest
  <2> QED
    BY <1>6, <2>3, <2>4, <2>6 DEF Inv
<1>8. CASE native.op \in {"update", "add", "delete"}
  <2>1. TypeOK'
    BY <1>1, <1>2, <1>4, <1>5 DEF TypeOK
  <2>2. command.kind = "save" /\ command'.kind = "save" /\ command'.changes = command.changes /\ command'.number = command.number
    BY <1>1, <1>3, <1>5, <1>8, ServedChange DEF SameCommand
  <2>3. \A i \in 1 .. Len(command'.todo) : command'.todo[i].do \notin Mutations \cup FileTasks \cup {"load"}
    BY <1>3 DEF Mutations, FileTasks
  <2>4. Tasks'
    <3>1. ChangesFirst(command'.todo, command'.changes)
      BY <1>3, <2>3 DEF ChangesFirst
    <3>2. Ordered(command)'
      BY <1>1, <1>3, <2>2, <2>3, <3>1 DEF Ordered, Keeps
    <3> QED
      BY <1>2, <3>2 DEF Tasks, Serves
  <2>5. Planned'
    BY <1>1, <1>2, <1>5 DEF Planned
  <2>6. Down'
    BY <1>1, <1>5, <2>2 DEF Down
  <2>7. SecretsKept'
    <3>1. SUFFICES ASSUME NEW s \in Secret, s \notin disturbed' PROVE SecretKept(s)'
      BY DEF SecretsKept
    <3>2. SecretKept(s)
      BY <1>1, <1>5, <3>1 DEF SecretsKept
    <3>3. PICK base \in allowed[s] : Follows(s, base)
      BY <1>1, <3>2 DEF SecretKept
    <3>4. keyring[s] \in MayLeave(command.changes[s], command.number, base)
      BY <1>1, <1>5, <3>3, FollowsMayLeave
    <3>5. ~Changing(s)' /\ ~Pending(s)'
      BY <1>2, <2>3 DEF Changing, Pending
    <3>6. Follows(s, base)'
      BY <1>1, <1>3, <2>2, <3>4, <3>5 DEF Follows
    <3>7. command.readings[s] = "unknown"
      <4>1. command.todo[1].do \in Mutations
        BY <1>1, <1>8 DEF Mutations
      <4> QED
        BY <1>1, <3>2, <4>1 DEF SecretKept
    <3> QED
      BY <1>1, <1>2, <1>3, <1>4, <2>2, <3>3, <3>6, <3>7 DEF SecretKept, Tells
  <2> QED
    BY <1>6, <2>1, <2>4, <2>5, <2>6, <2>7 DEF Inv
<1> QED
  BY <1>1, <1>7, <1>8 DEF Ops

-----------------------------------------------------------------------------
(* A command is answered.                                                  *)

(* What answers promise are sets of items. *)
LEMMA PromisedType ==
  ASSUME TypeOK, command # None, NEW ok \in BOOLEAN
  PROVE  Promised(command, ok) \in [Secret -> SUBSET SUBSET Nat]
<1>1. command \in Commands /\ command.number \in Nat /\ \A s \in Secret : command.changes[s] \in Change /\ allowed[s] \subseteq SUBSET Nat
  BY DEF TypeOK, Commands
<1>2. ASSUME NEW change \in Change, NEW items \in SUBSET Nat
      PROVE  Effects(change, command.number, items) \subseteq SUBSET Nat /\ MayLeave(change, command.number, items) \subseteq SUBSET Nat
  <2>1. Created(items, command.number) \subseteq SUBSET Nat
    BY <1>1, CreatedEffect
  <2>2. CASE change = "keep"
    BY <2>2 DEF Effects, MayLeave
  <2>3. CASE change = "update"
    BY <2>1, <2>3 DEF Effects, MayLeave
  <2>4. CASE change = "delete"
    BY <2>4 DEF Effects, MayLeave
  <2> QED
    BY <1>2, <2>2, <2>3, <2>4 DEF Change
<1>3. ASSUME NEW s \in Secret
      PROVE  UNION {IF ok THEN Effects(command.changes[s], command.number, items)
                    ELSE MayLeave(command.changes[s], command.number, items) : items \in allowed[s]} \in SUBSET SUBSET Nat
  BY <1>1, <1>2
<1> QED
  BY <1>3 DEF Promised

(* What is in a secret's place is promised if it follows from what was. *)
LEMMA PromisedItems ==
  ASSUME NEW c, NEW ok, NEW s \in Secret, NEW base \in allowed[s], NEW items,
         items \in (IF ok THEN Effects(c.changes[s], c.number, base) ELSE MayLeave(c.changes[s], c.number, base))
  PROVE  items \in Promised(c, ok)[s]
BY DEF Promised

LEMMA AnswerManager ==
  ASSUME Answer
  PROVE  /\ command.kind = "use" => manager' = manager
         /\ command.kind = "launch" =>
              manager' = [up |-> TRUE, settings |-> command.settings, presence |-> command.readings]
         /\ command.kind = "save" =>
              manager' = [manager EXCEPT !.settings = IF command.failed THEN @ ELSE command.number, !.presence = command.readings]
BY DEF Answer

(* The manager after an answer, by what the command was. *)
LEMMA AnsweredManager ==
  ASSUME TypeOK, Down, Answer
  PROVE  /\ command # None /\ command \in Commands /\ manager' \in [up : BOOLEAN, settings : Nat, presence : Readings] /\ manager'.up
         /\ command.kind = "use" => manager' = manager
         /\ command.kind = "launch" => manager'.settings = command.settings
         /\ command.kind = "save" => manager'.settings = (IF command.failed THEN manager.settings ELSE command.number)
         /\ command.kind # "use" => manager'.presence = command.readings
<1>1. command # None /\ command \in Commands /\ manager \in [up : BOOLEAN, settings : Nat, presence : Readings]
  BY DEF Answer, Finished, TypeOK
<1>2. command.kind # "launch" => manager.up
  BY <1>1 DEF Down
<1>3. /\ command.settings \in Nat /\ command.number \in Nat /\ command.readings \in Readings
      /\ command.kind \in {"save", "use", "launch"} /\ command.failed \in BOOLEAN
  BY <1>1 DEF Commands
<1>4. CASE command.kind = "use"
  BY <1>1, <1>2, <1>4, AnswerManager
<1>5. CASE command.kind = "launch"
  <2>1. manager' = [up |-> TRUE, settings |-> command.settings, presence |-> command.readings]
    BY <1>5, AnswerManager
  <2> QED
    BY <1>1, <1>3, <1>5, <2>1
<1>6. CASE command.kind = "save"
  <2> DEFINE settings == IF command.failed THEN manager.settings ELSE command.number
  <2>1. manager' = [manager EXCEPT !.settings = settings, !.presence = command.readings]
    BY <1>6, AnswerManager
  <2>2. settings \in Nat
    BY <1>1, <1>3
  <2> HIDE DEF settings
  <2>3. /\ manager' \in [up : BOOLEAN, settings : Nat, presence : Readings] /\ manager'.up = manager.up
        /\ manager'.settings = settings /\ manager'.presence = command.readings
    BY <1>1, <1>3, <2>1, <2>2
  <2> QED
    BY <1>1, <1>2, <1>6, <2>3 DEF settings
<1> QED
  BY <1>3, <1>4, <1>5, <1>6

(* Nothing is left to change, and nothing at all unless the command failed. *)
LEMMA NothingLeft ==
  ASSUME TypeOK, Answer
  PROVE  /\ \A i \in 1 .. Len(command.todo) : command.todo[i].do \notin Mutations
         /\ ~command.failed => Len(command.todo) = 0
<1>1. command \in Commands /\ Len(command.todo) \in Nat
  BY DEF Answer, Finished, TypeOK, Commands
<1>2. \A i \in 1 .. Len(command.todo) : command.failed /\ command.todo[i].do \in FileTasks
  BY DEF Answer, Finished, Remaining
<1>3. \A i \in 1 .. Len(command.todo) : command.todo[i].do \notin Mutations
  BY <1>2 DEF FileTasks, Mutations
<1>4. ASSUME ~command.failed, Len(command.todo) # 0 PROVE FALSE
  <2>1. 1 \in 1 .. Len(command.todo)
    BY <1>1, <1>4
  <2> QED
    BY <1>2, <1>4, <2>1
<1> QED
  BY <1>3, <1>4

LEMMA AnswerKeepsFile ==
  ASSUME TypeOK, Tasks, FileKept, Down, Answer
  PROVE  FileKept' /\ owed' \in Nat \cup {None}
<1>1. /\ command # None /\ command \in Commands /\ manager' \in [up : BOOLEAN, settings : Nat, presence : Readings] /\ manager'.up
      /\ command.kind = "use" => manager' = manager
      /\ command.kind = "launch" => manager'.settings = command.settings
      /\ command.kind = "save" => manager'.settings = (IF command.failed THEN manager.settings ELSE command.number)
  BY AnsweredManager
<1>2. /\ command' = None /\ UNCHANGED <<host, disk, left>>
      /\ owed' = (IF command.kind = "save" /\ ~command.failed THEN command.number ELSE owed)
  BY DEF Answer
<1>3. /\ disk.file.stamp \in Nat /\ disk.durable.stamp \in Nat /\ command.number \in Nat /\ owed \in Nat \cup {None}
      /\ command.kind \in {"save", "use", "launch"} /\ Begun' = Begun /\ (Keeps' <=> Keeps)
  BY <1>1, <1>2 DEF TypeOK, File, Commands, Begun, Keeps
<1>4. CASE command.kind = "save" /\ ~command.failed
  <2>1. Len(command.todo) = 0 /\ SaveProgress(command)
    BY <1>1, <1>4, NothingLeft DEF FileKept
  <2>2. FileStepsOf \in {3, 5}
    BY DEF FileStepsOf
  <2>3. disk.file.stamp = command.number /\ disk.file.whole /\ (disk.durable = disk.file \/ ~Keeps)
    BY <2>1, <2>2 DEF SaveProgress
  <2>4. disk.durable.whole
    BY <2>3 DEF FileKept
  <2>5. owed' = command.number /\ manager'.settings = command.number
    BY <1>1, <1>2, <1>4
  <2>6. owed' # None
    BY <1>3, <2>5, PublicSettingsAssumption DEF PublicSettingsAssumption
  <2>7. owed' <= disk'.file.stamp /\ manager'.settings <= disk'.file.stamp /\ (Keeps => owed' <= disk'.durable.stamp)
    BY <1>2, <1>3, <2>3, <2>5
  <2> QED
    BY <1>1, <1>2, <1>3, <2>3, <2>4, <2>5, <2>6, <2>7 DEF FileKept
<1>5. CASE ~(command.kind = "save" /\ ~command.failed)
  <2>1. owed' = owed
    BY <1>2, <1>5
  <2>2. owed # None => manager'.settings <= disk.file.stamp
    BY <1>1, <1>3, <1>5 DEF FileKept
  <2> QED
    BY <1>1, <1>2, <1>3, <2>1, <2>2 DEF FileKept
<1> QED
  BY <1>4, <1>5

LEMMA AnswerKeepsSecrets ==
  ASSUME TypeOK, Tasks, SecretsKept, Down, Answer
  PROVE  SecretsKept'
<1>1. SUFFICES ASSUME NEW s \in Secret, s \notin disturbed' PROVE SecretKept(s)'
  BY DEF SecretsKept
<1>2. /\ native = None /\ native' = None /\ command' = None /\ allowed' = Promised(command, ~command.failed)
      /\ UNCHANGED <<keyring, disturbed>>
  BY DEF Answer
<1>3. /\ command # None /\ command \in Commands
      /\ command.kind = "use" => manager' = manager
      /\ command.kind # "use" => manager'.presence = command.readings
  BY AnsweredManager
<1>4. SecretKept(s)
  BY <1>1, <1>2 DEF SecretsKept
<1>5. PICK base \in allowed[s] : Follows(s, base)
  BY <1>3, <1>4 DEF SecretKept
<1>6. ~Changing(s) /\ ~Pending(s)
  BY <1>2, NothingLeft DEF Changing, Pending
<1>7. keyring[s] \in (IF ~command.failed THEN Effects(command.changes[s], command.number, base)
                      ELSE MayLeave(command.changes[s], command.number, base))
  BY <1>5, <1>6 DEF Follows
<1>8. keyring'[s] \in allowed'[s]
  <2>1. keyring[s] \in Promised(command, ~command.failed)[s]
    BY <1>5, <1>7, PromisedItems
  <2> QED
    BY <1>2, <2>1
<1>9. manager'.presence[s] # "unknown" => (manager'.presence[s] = "present" <=> keyring'[s] # {})
  <2>1. Tells(command.readings[s], s) /\ (command.kind = "use" => Tells(manager.presence[s], s))
    BY <1>3, <1>4 DEF SecretKept
  <2> QED
    BY <1>2, <1>3, <2>1 DEF Tells
<1> QED
  BY <1>2, <1>8, <1>9 DEF SecretKept, Tells

LEMMA AnswerKeepsInv ==
  ASSUME Inv, Answer
  PROVE  Inv'
<1>1. TypeOK /\ Tasks /\ FileKept /\ Planned /\ SecretsKept /\ Down
  BY DEF Inv
<1>2. /\ native = None /\ native' = None /\ command' = None /\ allowed' = Promised(command, ~command.failed)
      /\ UNCHANGED <<host, keyring, orphans, disk, disturbed, left>>
  BY DEF Answer
<1>3. command # None /\ command.failed \in BOOLEAN /\ manager' \in [up : BOOLEAN, settings : Nat, presence : Readings] /\ manager'.up
  BY <1>1, AnsweredManager DEF Commands
<1>4. FileKept' /\ owed' \in Nat \cup {None}
  BY <1>1, AnswerKeepsFile
<1>5. allowed' \in [Secret -> SUBSET SUBSET Nat]
  BY <1>1, <1>2, <1>3, PromisedType
<1>6. TypeOK'
  BY <1>1, <1>2, <1>3, <1>4, <1>5 DEF TypeOK
<1>7. Tasks' /\ Down'
  BY <1>2, <1>3 DEF Tasks, Serves, Down
<1>8. Planned'
  BY <1>1, <1>2 DEF Planned
<1>9. SecretsKept'
  BY <1>1, AnswerKeepsSecrets
<1> QED
  BY <1>4, <1>6, <1>7, <1>8, <1>9 DEF Inv

-----------------------------------------------------------------------------
(* Crashes.                                                                *)

LEMMA MishapEffect ==
  ASSUME TypeOK, Mishap
  PROVE  left' \in [command : 0 .. MaxCommand, mishap : 0 .. MaxMishap] /\ Begun' = Begun /\ Begun \in Nat /\ Foreign \in Nat
<1>1. MaxCommand \in Nat /\ MaxMishap \in Nat /\ left \in [command : 0 .. MaxCommand, mishap : 0 .. MaxMishap]
  BY PublicSettingsAssumption DEF PublicSettingsAssumption, TypeOK
<1>2. left.mishap - 1 \in 0 .. MaxMishap /\ left' = [left EXCEPT !.mishap = left.mishap - 1]
  BY <1>1 DEF Mishap
<1>3. left' \in [command : 0 .. MaxCommand, mishap : 0 .. MaxMishap] /\ left'.command = left.command
  BY <1>1, <1>2
<1> QED
  BY <1>1, <1>3 DEF Begun, Foreign

\* Nobody waits for a call any more, but the system may still carry it out.
LeavesCall ==
  /\ keyring' \in [Secret -> SUBSET Nat]
  /\ \A s \in Secret :
       \/ keyring'[s] = keyring[s]
       \/ native # None /\ native.secret = s /\ \E m : Proceeds(native, keyring[s], m, keyring'[s])
  /\ orphans' \subseteq NativeCalls /\ \A n \in orphans' : PlanOf(n.op, n.plan) /\ n.result = None /\ n.secret \in disturbed'
  /\ disturbed \subseteq disturbed' /\ disturbed' \subseteq Secret

LEMMA CallingEffect ==
  ASSUME Inv, Calling
  PROVE  native \in NativeCalls /\ native # None /\ native.result = None /\ PlanOf(native.op, native.plan) /\ native.secret \in Secret
BY DEF Calling, Inv, TypeOK, Planned, NativeCalls

LEMMA CarriedOutLeaves ==
  ASSUME Inv, Calling, CarriedOut(native)
  PROVE  /\ keyring' \in [Secret -> SUBSET Nat]
         /\ \A s \in Secret :
              \/ keyring'[s] = keyring[s]
              \/ native # None /\ native.secret = s /\ \E m : Proceeds(native, keyring[s], m, keyring'[s])
<1>1. PICK o \in Outcomes(native) : keyring' = [keyring EXCEPT ![native.secret] = o.items]
  BY DEF CarriedOut
<1>2. /\ Proceeds(native, keyring[native.secret], o.native, keyring'[native.secret])
      /\ keyring' \in [Secret -> SUBSET Nat] /\ \A s \in Secret : s # native.secret => keyring'[s] = keyring[s]
  BY <1>1, CallingEffect, CarriedOutEffect DEF Inv
<1> QED
  BY <1>2, CallingEffect

LEMMA ProcessLeavesCall ==
  ASSUME Inv, Abandoned
  PROVE  LeavesCall
<1>1. /\ keyring \in [Secret -> SUBSET Nat] /\ orphans \subseteq NativeCalls /\ disturbed \subseteq Secret
      /\ \A n \in orphans : PlanOf(n.op, n.plan) /\ n.result = None /\ n.secret \in disturbed
  BY DEF Inv, TypeOK, Planned
<1>2. CASE Calling /\ CarriedOut(native) /\ UNCHANGED <<orphans, disturbed>>
  BY <1>1, <1>2, CarriedOutLeaves DEF LeavesCall
<1>3. CASE Calling /\ Stays(native) /\ UNCHANGED keyring
  <2>1. orphans' = orphans \cup {native} /\ disturbed' = disturbed \cup {native.secret}
    BY <1>3 DEF Stays
  <2> QED
    BY <1>1, <1>3, <2>1, CallingEffect DEF LeavesCall
<1>4. CASE UNCHANGED <<keyring, orphans, disturbed>>
  BY <1>1, <1>4 DEF LeavesCall
<1> QED
  BY <1>2, <1>3, <1>4 DEF Abandoned

LEMMA PowerLeavesCall ==
  ASSUME Inv, PowerFails
  PROVE  LeavesCall
<1>1. keyring \in [Secret -> SUBSET Nat] /\ disturbed \subseteq Secret /\ orphans' = {} /\ disturbed' = disturbed
  BY DEF Inv, TypeOK, PowerFails
<1>2. CASE UNCHANGED keyring
  BY <1>1, <1>2 DEF LeavesCall
<1>3. CASE Calling /\ CarriedOut(native)
  BY <1>1, <1>3, CarriedOutLeaves DEF LeavesCall
<1> QED
  BY <1>2, <1>3 DEF PowerFails

(* A command that was cut off may have left what it promised to leave. *)
LEMMA CutOff ==
  ASSUME TypeOK, Tasks, LeavesCall, command # None, NEW s \in Secret, NEW base, Follows(s, base)
  PROVE  keyring'[s] \in MayLeave(command.changes[s], command.number, base)
<1>1. CASE keyring'[s] = keyring[s]
  BY <1>1, FollowsMayLeave
<1>2. CASE keyring'[s] # keyring[s]
  <2>1. native # None /\ native.secret = s /\ \E m : Proceeds(native, keyring[s], m, keyring'[s])
    BY <1>2 DEF LeavesCall
  <2>2. PICK m : Proceeds(native, keyring[s], m, keyring'[s])
    BY <2>1
  <2>3. native.op \in {"update", "add", "delete"}
    <3>1. native.op \in {"update", "add", "delete", "presence", "read"}
      BY <2>1 DEF TypeOK, NativeCalls
    <3> QED
      BY <1>2, <2>2, <3>1 DEF Proceeds
  <2>4. DuringChange(native, base, keyring[s])
    <3>1. Changing(s)
      BY <2>1, <2>3 DEF Changing
    <3> QED
      BY <3>1 DEF Follows
  <2>5. DuringChange(m, base, keyring'[s]) /\ m.op = native.op /\ m.value = native.value
    BY <2>2, <2>3, <2>4 DEF Proceeds, SameCall
  <2>6. keyring'[s] \in MayLeave(IF native.op = "add" THEN "update" ELSE native.op, native.value, base)
    BY <2>3, <2>5, ChangeMayLeave
  <2>7. command.changes[s] = (IF native.op = "add" THEN "update" ELSE native.op) /\ native.value = command.number
    BY <2>1, <2>3, ServedChange, ServedTask
  <2> QED
    BY <2>6, <2>7
<1> QED
  BY <1>1, <1>2

(* A crash, whatever it does to the disk. *)
LEMMA CrashKeepsInv ==
  ASSUME Inv, Crashes, LeavesCall, host' = host, owed' \in Nat \cup {None},
         disk' \in [file : File, durable : File, temporary : File \cup {None}], FileKept'
  PROVE  Inv'
<1>1. TypeOK /\ Tasks /\ SecretsKept
  BY DEF Inv
<1>2. /\ Mishap /\ native' = None /\ command' = None /\ manager' = [up |-> FALSE, settings |-> 0, presence |-> Unknown]
      /\ allowed' = (IF command = None THEN allowed ELSE Promised(command, FALSE))
  BY DEF Crashes
<1>3. left' \in [command : 0 .. MaxCommand, mishap : 0 .. MaxMishap]
  BY <1>1, <1>2, MishapEffect
<1>4. Unknown \in Readings
  BY DEF Unknown, Readings
<1>5. allowed' \in [Secret -> SUBSET SUBSET Nat]
  BY <1>1, <1>2, PromisedType DEF TypeOK
<1>6. TypeOK'
  BY <1>1, <1>2, <1>3, <1>4, <1>5 DEF TypeOK, LeavesCall
<1>7. Tasks' /\ Down'
  BY <1>2 DEF Tasks, Serves, Down
<1>8. Planned'
  BY <1>2 DEF Planned, LeavesCall
<1>9. SecretsKept'
  <2>1. SUFFICES ASSUME NEW s \in Secret, s \notin disturbed' PROVE SecretKept(s)'
    BY DEF SecretsKept
  <2>2. SecretKept(s)
    BY <1>1, <2>1 DEF SecretsKept, LeavesCall
  <2>3. keyring'[s] \in allowed'[s]
    <3>1. CASE command = None
      <4>1. native = None
        BY <1>1, <3>1, NoCallBetween
      <4> QED
        BY <1>2, <2>2, <3>1, <4>1 DEF SecretKept, LeavesCall
    <3>2. CASE command # None
      <4>1. PICK base \in allowed[s] : Follows(s, base)
        BY <2>2, <3>2 DEF SecretKept
      <4>2. keyring'[s] \in MayLeave(command.changes[s], command.number, base)
        BY <1>1, <3>2, <4>1, CutOff
      <4>3. keyring'[s] \in Promised(command, FALSE)[s]
        BY <4>1, <4>2, PromisedItems
      <4> QED
        BY <1>2, <3>2, <4>3
    <3> QED
      BY <3>1, <3>2
  <2>4. manager'.presence[s] = "unknown"
    BY <1>2 DEF Unknown
  <2> QED
    BY <1>2, <2>3, <2>4 DEF SecretKept, Tells
<1> QED
  BY <1>6, <1>7, <1>8, <1>9 DEF Inv

LEMMA ProcessDiesKeepsInv ==
  ASSUME Inv, ProcessDies
  PROVE  Inv'
<1>1. Crashes /\ Abandoned /\ disk' = [disk EXCEPT !.temporary = None] /\ UNCHANGED <<host, owed>>
  BY DEF ProcessDies
<1>2. TypeOK /\ FileKept
  BY DEF Inv
<1>3. LeavesCall
  BY <1>1, ProcessLeavesCall
<1>4. /\ disk' \in [file : File, durable : File, temporary : File \cup {None}] /\ disk'.file = disk.file
      /\ disk'.durable = disk.durable /\ owed' \in Nat \cup {None} /\ disk.file.stamp \in Nat
  BY <1>1, <1>2 DEF TypeOK, File
<1>5. Begun' = Begun /\ manager'.settings = 0 /\ command' = None
  BY <1>1, <1>2, MishapEffect DEF Crashes
<1>6. manager'.settings <= disk'.file.stamp
  BY <1>4, <1>5
<1>7. FileKept'
  BY <1>1, <1>2, <1>4, <1>5, <1>6 DEF FileKept, Keeps
<1> QED
  BY <1>1, <1>3, <1>4, <1>7, CrashKeepsInv

LEMMA PowerFailsKeepsInv ==
  ASSUME Inv, PowerFails
  PROVE  Inv'
<1>1. Crashes /\ UNCHANGED host
  BY DEF PowerFails
<1>2. TypeOK /\ FileKept
  BY DEF Inv
<1>3. LeavesCall
  BY PowerLeavesCall
<1>4. PICK file \in Survives(disk.file) \cup Survives(disk.durable) :
        /\ disk' = [file |-> [file EXCEPT !.synced = TRUE], durable |-> [file EXCEPT !.synced = TRUE], temporary |-> None]
        /\ owed' = IF owed # None /\ ~Keeps /\ file.whole THEN file.stamp ELSE owed
  BY DEF PowerFails
<1>5. file \in {disk.file, disk.durable}
  BY <1>2 DEF Survives, FileKept
<1>6. disk.file \in File /\ disk.durable \in File /\ owed \in Nat \cup {None}
  BY <1>2 DEF TypeOK
<1>7. file \in File /\ file.stamp \in Nat /\ file.stamp # None
  BY <1>5, <1>6, PublicSettingsAssumption DEF File, PublicSettingsAssumption
<1> DEFINE after == [file EXCEPT !.synced = TRUE]
<1>8. after \in File /\ after.stamp = file.stamp /\ after.whole = file.whole /\ after.synced
  BY <1>7 DEF File
<1>9. disk'.file = after /\ disk'.durable = after /\ disk' = [file |-> after, durable |-> after, temporary |-> None]
  BY <1>4
<1> HIDE DEF after
<1>10. disk' \in [file : File, durable : File, temporary : File \cup {None}] /\ owed' \in Nat \cup {None}
  <2>1. disk' \in [file : File, durable : File, temporary : File \cup {None}]
    BY <1>8, <1>9
  <2>2. owed' = owed \/ owed' = file.stamp
    BY <1>4
  <2> QED
    BY <1>6, <1>7, <2>1, <2>2
<1>11. Begun' = Begun /\ manager'.settings = 0 /\ command' = None /\ (Keeps' <=> Keeps)
  BY <1>1, <1>2, MishapEffect DEF Crashes, Keeps
<1>12. /\ file.stamp <= Begun
       /\ owed # None => file.whole /\ (Keeps => owed <= file.stamp)
       /\ ~Keeps => owed # None
  BY <1>2, <1>5 DEF FileKept
<1>13. manager'.settings <= file.stamp /\ file.stamp <= file.stamp
  BY <1>7, <1>11
<1>14. /\ owed' # None => file.whole /\ owed' <= file.stamp
       /\ ~Keeps => owed' # None
  BY <1>4, <1>7, <1>12, <1>13
<1>15. FileKept'
  BY <1>8, <1>9, <1>11, <1>12, <1>13, <1>14 DEF FileKept
<1> QED
  BY <1>1, <1>3, <1>10, <1>15, CrashKeepsInv

-----------------------------------------------------------------------------
(* Other programs.                                                         *)

(* What goes on with secrets that nobody disturbs. *)
LEMMA StillSecrets ==
  ASSUME SecretsKept, disturbed \subseteq disturbed', UNCHANGED <<native, command, manager>>,
         \A s \in Secret \ disturbed' : keyring'[s] = keyring[s] /\ allowed'[s] = allowed[s]
  PROVE  SecretsKept'
<1>1. SUFFICES ASSUME NEW s \in Secret, s \notin disturbed' PROVE SecretKept(s)'
  BY DEF SecretsKept
<1>2. SecretKept(s) /\ keyring'[s] = keyring[s] /\ allowed'[s] = allowed[s]
  BY <1>1 DEF SecretsKept
<1>3. ASSUME NEW base, Follows(s, base) PROVE Follows(s, base)'
  BY <1>2, <1>3 DEF Follows, Changing, Pending
<1> QED
  BY <1>2, <1>3 DEF SecretKept, Tells

LEMMA StillTasks ==
  ASSUME Tasks, UNCHANGED <<host, native, command>>
  PROVE  Tasks'
<1>1. command # None => Ordered(command)'
  BY DEF Tasks, Ordered, Places, FileStepsOf, FileTaskLeft, Keeps
<1>2. Serves'
  BY DEF Tasks, Serves
<1> QED
  BY <1>1, <1>2 DEF Tasks

LEMMA LateKeepsInv ==
  ASSUME Inv, PromptAnsweredLate
  PROVE  Inv'
<1>1. TypeOK /\ Tasks /\ FileKept /\ Planned /\ SecretsKept /\ Down
  BY DEF Inv
<1>2. PICK n \in orphans :
        /\ orphans' = orphans \ {n} /\ (CarriedOut(n) \/ UNCHANGED keyring)
        /\ UNCHANGED <<host, native, command, disk, manager, allowed, owed, disturbed, left>>
  BY DEF PromptAnsweredLate
<1>3. n \in NativeCalls /\ PlanOf(n.op, n.plan) /\ n.result = None /\ n.secret \in disturbed
  BY <1>1, <1>2 DEF TypeOK, Planned
<1>4. keyring' \in [Secret -> SUBSET Nat] /\ \A s \in Secret : s # n.secret => keyring'[s] = keyring[s]
  <2>1. CASE CarriedOut(n)
    <3>1. PICK o \in Outcomes(n) : keyring' = [keyring EXCEPT ![n.secret] = o.items]
      BY <2>1 DEF CarriedOut
    <3> QED
      BY <1>1, <1>3, <3>1, CarriedOutEffect
  <2>2. CASE UNCHANGED keyring
    BY <1>1, <2>2 DEF TypeOK
  <2> QED
    BY <1>2, <2>1, <2>2
<1>5. TypeOK'
  BY <1>1, <1>2, <1>4 DEF TypeOK
<1>6. Tasks'
  BY <1>1, <1>2, StillTasks
<1>7. FileKept'
  BY <1>1, <1>2 DEF FileKept, SaveProgress, FileStepsOf, Begun, Keeps
<1>8. Planned' /\ Down'
  BY <1>1, <1>2 DEF Planned, Down
<1>9. SecretsKept'
  BY <1>1, <1>2, <1>3, <1>4, StillSecrets
<1> QED
  BY <1>5, <1>6, <1>7, <1>8, <1>9 DEF Inv

LEMMA ForeignItemKeepsInv ==
  ASSUME Inv, ForeignItem
  PROVE  Inv'
<1>1. TypeOK /\ Tasks /\ FileKept /\ Planned /\ SecretsKept /\ Down
  BY DEF Inv
<1>2. left' \in [command : 0 .. MaxCommand, mishap : 0 .. MaxMishap] /\ Begun' = Begun /\ Foreign \in Nat
  BY <1>1, MishapEffect DEF ForeignItem
<1>3. PICK s \in Secret :
       /\ \E items \in {keyring[s] \cup {Foreign} : x \in IF host.system = "linux" \/ keyring[s] = {} THEN {1} ELSE {}}
                       \cup {keyring[s] \ {i} : i \in keyring[s]} :
            /\ keyring' = [keyring EXCEPT ![s] = items]
            /\ allowed' = IF command = None THEN [allowed EXCEPT ![s] = {items}] ELSE allowed
       /\ \/ ~manager.up /\ command = None /\ UNCHANGED disturbed
          \/ Calling /\ disturbed' = disturbed \cup {s}
  BY DEF ForeignItem
<1>4. keyring \in [Secret -> SUBSET Nat] /\ allowed \in [Secret -> SUBSET SUBSET Nat] /\ disturbed \subseteq Secret
  BY <1>1 DEF TypeOK
<1>5. PICK items \in SUBSET Nat :
            /\ keyring' = [keyring EXCEPT ![s] = items]
            /\ allowed' = IF command = None THEN [allowed EXCEPT ![s] = {items}] ELSE allowed
  <2>1. keyring[s] \in SUBSET Nat
    BY <1>4
  <2> QED
    BY <1>2, <1>3, <2>1
<1>6. UNCHANGED <<host, orphans, native, command, disk, manager, owed>>
  BY DEF ForeignItem
<1>7. /\ keyring' \in [Secret -> SUBSET Nat] /\ allowed' \in [Secret -> SUBSET SUBSET Nat]
      /\ disturbed \subseteq disturbed' /\ disturbed' \subseteq Secret
      /\ keyring'[s] = items /\ \A t \in Secret : t # s => keyring'[t] = keyring[t] /\ allowed'[t] = allowed[t]
  BY <1>3, <1>4, <1>5
<1>8. TypeOK'
  BY <1>1, <1>2, <1>6, <1>7 DEF TypeOK
<1>9. Tasks'
  BY <1>1, <1>6, StillTasks
<1>10. FileKept'
  BY <1>1, <1>2, <1>6 DEF FileKept, SaveProgress, FileStepsOf, Keeps
<1>11. Planned' /\ Down'
  BY <1>1, <1>6, <1>7 DEF Planned, Down
<1>12. SecretsKept'
  <2>1. CASE Calling /\ disturbed' = disturbed \cup {s}
    BY <1>1, <1>6, <1>7, <2>1, StillSecrets
  <2>2. CASE ~manager.up /\ command = None /\ UNCHANGED disturbed
    <3>1. native = None /\ manager.presence = Unknown
      BY <1>1, <2>2, NoCallBetween DEF Down
    <3>2. SUFFICES ASSUME NEW t \in Secret, t \notin disturbed' PROVE SecretKept(t)'
      BY DEF SecretsKept
    <3>3. keyring'[t] \in allowed'[t]
      <4>1. CASE t = s
        BY <1>4, <1>5, <2>2, <4>1
      <4>2. CASE t # s
        BY <1>1, <1>7, <2>2, <3>2, <4>2 DEF SecretsKept, SecretKept
      <4> QED
        BY <4>1, <4>2
    <3>4. manager'.presence[t] = "unknown"
      BY <1>6, <3>1 DEF Unknown
    <3> QED
      BY <1>6, <2>2, <3>1, <3>3, <3>4 DEF SecretKept, Tells
  <2> QED
    BY <1>3, <2>1, <2>2
<1> QED
  BY <1>8, <1>9, <1>10, <1>11, <1>12 DEF Inv

LEMMA ForeignFileKeepsInv ==
  ASSUME Inv, ForeignFile
  PROVE  Inv'
<1>1. TypeOK /\ Tasks /\ FileKept /\ Planned /\ SecretsKept /\ Down
  BY DEF Inv
<1>2. left' \in [command : 0 .. MaxCommand, mishap : 0 .. MaxMishap] /\ Begun' = Begun /\ Begun \in Nat
  BY <1>1, MishapEffect DEF ForeignFile
<1>3. /\ Keeps /\ command = None /\ disk' = [disk EXCEPT !.file = Rubbish, !.durable = Rubbish] /\ owed' = None
      /\ UNCHANGED <<host, keyring, orphans, native, command, manager, allowed, disturbed>>
  BY DEF ForeignFile
<1>4. Rubbish \in File /\ Rubbish.stamp = 0 /\ Rubbish.synced
  BY DEF Rubbish, Absent, File
<1>5. /\ disk' \in [file : File, durable : File, temporary : File \cup {None}] /\ disk'.file = Rubbish /\ disk'.durable = Rubbish
  BY <1>1, <1>3, <1>4 DEF TypeOK
<1>6. TypeOK'
  BY <1>1, <1>2, <1>3, <1>5 DEF TypeOK
<1>7. Tasks'
  BY <1>1, <1>3, StillTasks
<1>8. FileKept'
  BY <1>1, <1>2, <1>3, <1>4, <1>5 DEF FileKept, Keeps
<1>9. Planned' /\ Down'
  BY <1>1, <1>3 DEF Planned, Down
<1>10. SecretsKept'
  BY <1>1, <1>3, StillSecrets
<1> QED
  BY <1>6, <1>7, <1>8, <1>9, <1>10 DEF Inv

-----------------------------------------------------------------------------
(* The inductive invariant.                                                *)

LEMMA InitInv ==
  ASSUME Init
  PROVE  Inv
<1>1. MaxCommand \in Nat /\ MaxMishap \in Nat /\ None \notin Nat
  BY PublicSettingsAssumption DEF PublicSettingsAssumption
<1>2. PICK items \in {{}, {0}} : keyring = [s \in Secret |-> items]
  BY DEF Init
<1>3. keyring \in [Secret -> SUBSET Nat] /\ allowed = [s \in Secret |-> {keyring[s]}]
  BY <1>2 DEF Init
<1>4. Absent \in File /\ Absent.stamp = 0 /\ Absent.synced /\ Absent.whole
  BY DEF Absent, File
<1>5. Unknown \in Readings /\ \A s \in Secret : Unknown[s] = "unknown"
  BY DEF Unknown, Readings
<1>6. /\ orphans = {} /\ native = None /\ command = None /\ owed = 0 /\ disturbed = {}
      /\ disk = [file |-> Absent, durable |-> Absent, temporary |-> None]
      /\ manager = [up |-> FALSE, settings |-> 0, presence |-> Unknown]
      /\ left = [command |-> MaxCommand, mishap |-> MaxMishap]
  BY DEF Init
<1>7. TypeOK
  <2>1. allowed \in [Secret -> SUBSET SUBSET Nat]
    BY <1>3
  <2>2. left \in [command : 0 .. MaxCommand, mishap : 0 .. MaxMishap]
    BY <1>1, <1>6
  <2> QED
    BY <1>3, <1>4, <1>5, <1>6, <2>1, <2>2 DEF Init, TypeOK
<1>8. Tasks /\ Planned /\ Down
  BY <1>6 DEF Tasks, Serves, Planned, Down
<1>9. FileKept
  BY <1>1, <1>4, <1>6 DEF FileKept, Begun
<1>10. SecretsKept
  BY <1>3, <1>5, <1>6 DEF SecretsKept, SecretKept, Tells
<1> QED
  BY <1>7, <1>8, <1>9, <1>10 DEF Inv

LEMMA BeginKeepsInv ==
  ASSUME Inv, NEW kind, NEW changes, NEW todo, Begins(kind, changes, todo)
  PROVE  Inv'
<1>1. TypeOK /\ Tasks /\ FileKept /\ Planned /\ SecretsKept /\ Down
  BY DEF Inv
<1>2. TypeOK'
  BY <1>1, BeginKeepsTypeOK
<1>3. Tasks'
  BY <1>1, BeginKeepsTasks
<1>4. FileKept'
  BY <1>1, BeginKeepsFile
<1>5. Planned'
  BY <1>1, BeginKeepsPlanned
<1>6. SecretsKept'
  BY <1>1, BeginKeepsSecrets
<1>7. Down'
  BY <1>1, BeginKeepsDown
<1> QED
  BY <1>2, <1>3, <1>4, <1>5, <1>6, <1>7 DEF Inv

LEMMA CallKeepsInv ==
  ASSUME Inv, CallGoesOn
  PROVE  Inv'
<1>1. TypeOK /\ Tasks /\ FileKept /\ Planned /\ SecretsKept /\ Down
  BY DEF Inv
<1>2. TypeOK' /\ Tasks' /\ FileKept' /\ Planned' /\ SecretsKept'
  BY <1>1, CallKeepsTypeOK, CallKeepsTasks, CallKeepsFile, CallKeepsPlanned, CallKeepsSecrets
<1>3. Down'
  BY <1>1 DEF Down, CallGoesOn
<1> QED
  BY <1>2, <1>3 DEF Inv

LEMMA FileKeepsInv ==
  ASSUME Inv, Replaces \/ FileFails \/ Load
  PROVE  Inv'
<1>1. TypeOK /\ Tasks /\ FileKept /\ Planned /\ SecretsKept /\ Down
  BY DEF Inv
<1>2. /\ GoesOn /\ native = None /\ command'.readings = command.readings /\ FileKept'
      /\ disk' \in [file : File, durable : File, temporary : File \cup {None}]
  BY <1>1, ReplaceKeepsFile, FileFailsKeepsFile, LoadKeepsFile
<1>3. Tasks'
  BY <1>2, GoesOnKeepsTasks
<1>4. SecretsKept'
  BY <1>1, <1>2, GoesOnKeepsSecrets
<1>5. TypeOK' /\ Planned' /\ Down'
  BY <1>1, <1>2, GoesOnKeepsRest
<1> QED
  BY <1>2, <1>3, <1>4, <1>5 DEF Inv

LEMMA ReturnKeepsInv ==
  ASSUME Inv, StoreReturns
  PROVE  Inv'
BY AddKeepsInv, PresenceKeepsInv, SuccessKeepsInv, FailureKeepsInv

LEMMA NextInv ==
  ASSUME Inv, [Next]_vars
  PROVE  Inv'
<1>1. TypeOK /\ Tasks /\ SecretsKept
  BY DEF Inv
<1>2. CASE Asking
  <2>1. \E kind, changes, todo : Begins(kind, changes, todo)
    BY <1>1, <1>2, SaveBegins, UseBegins, LaunchBegins DEF Asking
  <2> QED
    BY <2>1, BeginKeepsInv
<1>3. CASE Native \/ NativePrompts \/ PromptAccepted \/ PromptDismissed
  BY <1>3, CallSteps, CallKeepsInv DEF Native
<1>4. CASE CallStore
  <2>1. PICK op : Makes(op)
    BY <1>1, <1>4, MakesCall
  <2>2. SecretsKept'
    BY <1>1, <2>1, MakeKeepsSecrets
  <2>3. TypeOK' /\ Tasks' /\ FileKept' /\ Planned' /\ Down'
    BY <2>1, MakeKeepsRest
  <2> QED
    BY <2>2, <2>3 DEF Inv
<1>5. CASE StoreReturns
  BY <1>5, ReturnKeepsInv
<1>6. CASE Storing
  BY <1>6, FileKeepsInv DEF Storing, Replaces
<1>7. CASE Answer
  BY <1>7, AnswerKeepsInv
<1>8. CASE PromptAnsweredLate \/ ForeignItem \/ ForeignFile
  BY <1>8, LateKeepsInv, ForeignItemKeepsInv, ForeignFileKeepsInv
<1>9. CASE ProcessDies \/ PowerFails
  BY <1>9, ProcessDiesKeepsInv, PowerFailsKeepsInv
<1>10. CASE UNCHANGED vars
  <2>1. /\ UNCHANGED <<host, native, command, manager, keyring, allowed, disturbed>>
        /\ UNCHANGED <<orphans, disk, owed, left>>
    BY <1>10 DEF vars
  <2>2. Tasks'
    BY <1>1, <2>1, StillTasks
  <2>3. SecretsKept'
    BY <1>1, <2>1, StillSecrets
  <2>4. TypeOK' /\ Planned' /\ Down'
    BY <2>1 DEF Inv, TypeOK, Planned, Down
  <2>5. FileKept'
    BY <2>1 DEF Inv, FileKept, SaveProgress, FileStepsOf, Begun, Keeps
  <2> QED
    BY <2>2, <2>3, <2>4, <2>5 DEF Inv
<1> QED
  BY <1>2, <1>3, <1>4, <1>5, <1>6, <1>7, <1>8, <1>9, <1>10 DEF Next, Working, Others

LEMMA SpecInv == Spec => []Inv
<1>1. Init => Inv
  BY InitInv
<1>2. Inv /\ [Next]_vars => Inv'
  BY NextInv
<1> QED
  BY <1>1, <1>2, PTL DEF Spec

-----------------------------------------------------------------------------
(* Theorems.                                                               *)

(* Whatever the window asks for, whatever the systems answer and whenever  *)
(* the process dies, every variable keeps its type.                        *)
THEOREM TypeAlwaysOK == Spec => []TypeOK
<1>1. Inv => TypeOK
  BY DEF Inv
<1> QED
  BY <1>1, SpecInv, PTL

(* The atomic replacement of Save: no crash and no loss of power leaves a  *)
(* file that cannot be read or that is older than the last save that was   *)
(* answered with success, and the settings in use are never newer than     *)
(* those of the file.                                                      *)
THEOREM SettingsAlwaysSurvive == Spec => []SettingsSurvive
<1>1. Inv => SettingsSurvive
  <2>1. SUFFICES ASSUME Inv, owed # None PROVE disk.file.whole /\ disk.file.stamp >= owed /\ manager.settings <= disk.file.stamp
    BY DEF SettingsSurvive
  <2>2. disk.file.whole /\ owed <= disk.file.stamp /\ manager.settings <= disk.file.stamp
    BY <2>1 DEF Inv, FileKept
  <2>3. disk.file.stamp \in Nat /\ owed \in Nat
    BY <2>1 DEF Inv, TypeOK, File
  <2> QED
    BY <2>2, <2>3
<1> QED
  BY <1>1, SpecInv, PTL

(* Reconfigure and the backends of the keyring: between commands a secret  *)
(* is what the answers allow, whichever calls failed, were carried out     *)
(* without an answer or were cut off, and what the window shows of it is   *)
(* true.                                                                   *)
THEOREM SecretsAlwaysFollowTheAnswers == Spec => []SecretsFollowTheAnswers
<1>1. Inv => SecretsFollowTheAnswers
  BY DEF Inv, SecretsKept, SecretKept, Tells, SecretsFollowTheAnswers, AtRest
<1> QED
  BY <1>1, SpecInv, PTL

=============================================================================
