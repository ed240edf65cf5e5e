--------------------------- MODULE PublicSettings ---------------------------
(***************************************************************************)
(* What a settings command of public access leaves behind: the two secrets *)
(* in the keyring of the system and the settings file.  PublicAccess knows *)
(* a change that succeeds and one that fails; here a change is the calls   *)
(* of internal/platform, which may be carried out although they failed,    *)
(* and a save is the steps of the file systems's atomic replacement, with  *)
(* crashes and power loss in between.  The session documents and player    *)
(* configs, which are replaced in the same way but for the last step, take *)
(* the file's part in some behaviours.                                     *)
(***************************************************************************)
EXTENDS Naturals, Sequences, FiniteSets

CONSTANTS
  Offered,     \* bound: what the window asks for the secrets
  MaxCommand,  \* bound: commands of the window, launches not counted
  MaxMishap,   \* bound: the process or the power fails, or other programs change an item or the file
  MaxLost,     \* bound: prompts on the desktop that could not be dismissed
  None

System == {"linux", "darwin", "windows"}
Secret == {"token", "password"}
Change == {"keep", "update", "delete"}
FileTasks == {"write", "sync", "rename", "secure", "flush"}
Do == {"update", "delete", "presence", "read", "load"} \cup FileTasks
Readings == [Secret -> {"unknown", "present", "absent"}]

Step == {"unlock", "search", "open", "get", "create", "delete", "remove", "replace", "insert"}
Result == {"ok", "present", "absent", "not found", "failed"}
NativeCalls ==
  [op : {"update", "add", "delete", "presence", "read"}, secret : Secret, value : Nat, plan : Seq(Step),
   found : SUBSET Nat, waiting : BOOLEAN, result : Result \cup {None}]
Commands ==
  [kind : {"save", "use", "launch"}, changes : [Secret -> Change], todo : Seq([do : Do, secret : Secret \cup {None}]),
   failed : BOOLEAN, number : Nat, readings : Readings, settings : Nat]
File == [stamp : Nat, synced : BOOLEAN, whole : BOOLEAN]

ASSUME PublicSettingsAssumption ==
  /\ Offered \subseteq [Secret -> Change]
  /\ {MaxCommand, MaxMishap, MaxLost} \subseteq Nat
  /\ None \notin Nat \cup System \cup Result \cup NativeCalls \cup Commands \cup File

VARIABLES
  host,     \* the system and the kind of file; never changes
  keyring,  \* keyring[s]: the items with s's attributes, each a number of the command that wrote it
  orphans,  \* native calls whose prompt is still on the desktop though nobody waits for it
  native,   \* the native call under way
  command,  \* the command or launch under way
  disk,     \* the file as programs see it, as it survives a loss of power, and the temporary one
  manager,  \* preferences, provider, password of PublicAccessManager
  allowed,  \* history: allowed[s], the sets of items the answers allow
  owed,     \* history: the last save that was answered with success and must be in the file
  disturbed,\* history: secrets others changed during a call, or that a prompt which stays may change
  left      \* what is left of the bounds

vars == <<host, keyring, orphans, native, command, disk, manager, allowed, owed, disturbed, left>>

Foreign == MaxCommand + 1

Keeps == host.store = "settings"     \* the file is that of PublicAccessSettingsStore
Absent == [stamp |-> 0, synced |-> TRUE, whole |-> TRUE]
Rubbish == [Absent EXCEPT !.whole = FALSE]
Unknown == [s \in Secret |-> "unknown"]

Init ==
  /\ host \in [system : System, store : {"settings"}] \cup {[system |-> None, store |-> "documents"]}
  /\ keyring \in {[s \in Secret |-> items] : items \in {{}, {0}}}
  /\ orphans = {} /\ native = None /\ command = None
  /\ disk = [file |-> Absent, durable |-> Absent, temporary |-> None]
  /\ manager = [up |-> FALSE, settings |-> 0, presence |-> Unknown]
  /\ allowed = [s \in Secret |-> {keyring[s]}]
  /\ owed = 0 /\ disturbed = {}
  /\ left = [command |-> MaxCommand, mishap |-> MaxMishap]

-----------------------------------------------------------------------------
(* Native calls.  Each backend method is a row of calls to the system.     *)

\* keychain_linux.go: a collection and, before they are used, its items are unlocked.
LinuxPlan(op) ==
  CASE op = "presence" -> <<"unlock", "search">>
    [] op = "update"   -> <<"unlock", "search", "create">>
    [] op = "add"      -> <<"unlock", "create">>
    [] op = "delete"   -> <<"unlock", "search", "open", "delete">>
    [] op = "read"     -> <<"unlock", "search", "open", "get">>
\* keychain_windows.go: there is one credential of a name, and writing creates or replaces it.
WindowsPlan(op) ==
  CASE op = "presence" -> <<"search">>
    [] op = "update"   -> <<"search", "create">>
    [] op = "add"      -> <<"create">>
    [] op = "delete"   -> <<"remove">>
    [] op = "read"     -> <<"get">>
\* keychain_darwin.go
DarwinPlan(op) ==
  CASE op = "presence" -> <<"search">>
    [] op = "update"   -> <<"replace">>
    [] op = "add"      -> <<"insert">>
    [] op = "delete"   -> <<"remove">>
    [] op = "read"     -> <<"get">>
Plan(op) == CASE host.system = "linux" -> LinuxPlan(op) [] host.system = "windows" -> WindowsPlan(op)
              [] host.system = "darwin" -> DarwinPlan(op)

NativeCall(op, secret, value) ==
  [op |-> op, secret |-> secret, value |-> value, plan |-> Plan(op), found |-> {}, waiting |-> FALSE, result |-> None]
Ends(n, result) == [n EXCEPT !.plan = <<>>, !.waiting = FALSE, !.result = result]
Passes(n) == IF Len(n.plan) = 1 THEN Ends(n, "ok") ELSE [n EXCEPT !.plan = Tail(@), !.waiting = FALSE]

\* What a call leaves of the items, and what its caller knows then.
Outcome(items, n) == [items |-> items, native |-> n]

\* search, FilteredList, QueryItem: none, one or several items; to read one it must be the only one.
Search(n, items) ==
  Outcome(items,
    CASE n.op = "presence" -> Ends(n, IF items = {} THEN "absent" ELSE "present")
      [] n.op # "presence" /\ items = {} -> Ends(n, "not found")
      [] n.op = "read" /\ Cardinality(items) > 1 -> Ends(n, "failed")
      [] OTHER -> [Passes(n) EXCEPT !.found = items])
\* unlock of the items that were found
Open(n, items) == Outcome(items, IF n.found \subseteq items THEN Passes(n) ELSE Ends(n, "not found"))
\* CreateItem with its flag "replace" takes the place of one item with the same attributes.
Created(items, value) == IF items = {} THEN {{value}} ELSE {(items \ {i}) \cup {value} : i \in items}
\* delete, called for one found item after the other.
Delete(n, items, i) ==
  CASE i \notin items                 -> Outcome(items, Ends(n, "not found"))
    [] i \in items /\ n.found = {i} -> Outcome(items \ {i}, Passes(n))
    [] OTHER                         -> Outcome(items \ {i}, [n EXCEPT !.found = @ \ {i}, !.waiting = FALSE])
Get(n, items) == Outcome(items, IF items = {} \/ ~(n.found \subseteq items) THEN Ends(n, "not found") ELSE Passes(n))

Outcomes(n) ==
  LET items == keyring[n.secret] IN
  CASE Head(n.plan) = "unlock"  -> {Outcome(items, Passes(n))}
    [] Head(n.plan) = "search"  -> {Search(n, items)}
    [] Head(n.plan) = "open"    -> {Open(n, items)}
    [] Head(n.plan) = "get"     -> {Get(n, items)}
    [] Head(n.plan) = "create"  -> {Outcome(i, Passes(n)) : i \in Created(items, n.value)}
    [] Head(n.plan) = "delete"  -> {Delete(n, items, i) : i \in n.found}
    [] Head(n.plan) = "remove"  -> {Outcome({}, Ends(n, IF items = {} THEN "not found" ELSE "ok"))}
    [] Head(n.plan) = "replace" -> IF items = {} THEN {Outcome(items, Ends(n, "not found"))}
                                   ELSE {Outcome(i, Passes(n)) : i \in Created(items, n.value)}
    [] Head(n.plan) = "insert"  -> {IF items = {} THEN Outcome({n.value}, Passes(n)) ELSE Outcome(items, Ends(n, "failed"))}

Calling == native # None /\ native.result = None
Happens(o) == keyring' = [keyring EXCEPT ![native.secret] = o.items] /\ native' = o.native

\* The system does what it was asked for, at once ...
NativeReplies ==
  /\ Calling /\ ~native.waiting
  /\ \E o \in Outcomes(native) : Happens(o)
  /\ UNCHANGED <<host, orphans, command, disk, manager, allowed, owed, disturbed, left>>

\* ... or refuses: locked, denied, unavailable, not reachable ...
NativeFails ==
  /\ Calling /\ ~native.waiting /\ native' = Ends(native, "failed")
  /\ UNCHANGED <<host, keyring, orphans, command, disk, manager, allowed, owed, disturbed, left>>

\* ... or, on Linux, names a prompt, which is shown to the user.
NativePrompts ==
  /\ Calling /\ ~native.waiting /\ host.system = "linux"
  /\ Head(native.plan) \in {"unlock", "open", "create", "delete"}
  /\ native' = [native EXCEPT !.waiting = TRUE]
  /\ UNCHANGED <<host, keyring, orphans, command, disk, manager, allowed, owed, disturbed, left>>

\* The user agrees, and the signal Completed arrives ...
PromptAccepted ==
  /\ Calling /\ native.waiting
  /\ \E o \in Outcomes(native) : Happens(o)
  /\ UNCHANGED <<host, orphans, command, disk, manager, allowed, owed, disturbed, left>>

\* ... or dismisses the prompt, or the bus is gone.
PromptDismissed ==
  /\ Calling /\ native.waiting /\ native' = Ends(native, "failed")
  /\ UNCHANGED <<host, keyring, orphans, command, disk, manager, allowed, owed, disturbed, left>>

\* Mutant of Expires: only the reply to a call is waited for with a deadline.
ExpiresIfCalled == Calling /\ host.system = "linux" /\ ~native.waiting
\* linuxCredentialOperationTimeout ends every call of a backend method.
Expires == Calling /\ host.system = "linux"

\* Mutant of Withdrawn: the prompt is left to itself.
WithdrawnNever(n) == IF n.waiting /\ Head(n.plan) = "create" THEN {n} ELSE {}
\* A prompt that nobody waits for any more is dismissed.
Withdrawn(n) == {}

\* Dismiss has a second to arrive, and may not; what matters then is a prompt for a change.
Stays(n) ==
  /\ n.waiting /\ Head(n.plan) \in {"create", "delete"} /\ Cardinality(orphans) < MaxLost
  /\ orphans' = orphans \cup {n} /\ disturbed' = disturbed \cup {n.secret}

CarriedOut(n) == \E o \in Outcomes(n) : keyring' = [keyring EXCEPT ![n.secret] = o.items]

\* The call, or the prompt, may have been carried out without its caller learning of it.
Deadline ==
  /\ Expires
  /\ native' = Ends(native, "failed")
  /\ \/ CarriedOut(native) /\ UNCHANGED <<orphans, disturbed>>
     \/ orphans' = orphans \cup Withdrawn(native) /\ UNCHANGED <<keyring, disturbed>>
     \/ Stays(native) /\ UNCHANGED keyring
  /\ UNCHANGED <<host, command, disk, manager, allowed, owed, left>>

\* Somebody answers a prompt that was left behind.
PromptAnsweredLate ==
  \E n \in orphans :
    /\ orphans' = orphans \ {n}
    /\ CarriedOut(n) \/ UNCHANGED keyring
    /\ UNCHANGED <<host, native, command, disk, manager, allowed, owed, disturbed, left>>

-----------------------------------------------------------------------------
(* Commands.  A command is the row of its remaining tasks.                 *)

Task(do, secret) == [do |-> do, secret |-> secret]
Both(do) == <<Task(do, "token"), Task(do, "password")>>

\* The tasks of Save; WriteAtomic of session and playerconfig has the first three.
Saving == <<Task("write", None), Task("sync", None), Task("rename", None)>>
          \o (IF Keeps THEN <<Task("secure", None), Task("flush", None)>> ELSE <<>>)

\* applySecretMutation: a secret is left alone, replaced or deleted.
Changed(changes, s) == IF changes[s] = "keep" THEN <<>> ELSE <<Task(changes[s], s)>>
Mutation(changes) == Changed(changes, "token") \o Changed(changes, "password")

Command(kind, changes, todo) ==
  [kind |-> kind, changes |-> changes, todo |-> todo, failed |-> FALSE, number |-> MaxCommand - left.command + 1,
   readings |-> Unknown, settings |-> manager.settings]
Kept == [s \in Secret |-> "keep"]

Begin(kind, changes, todo) ==
  /\ command = None /\ command' = Command(kind, changes, todo)
  /\ UNCHANGED <<host, keyring, orphans, native, disk, manager, allowed, owed, disturbed>>
Asked == manager.up /\ left.command > 0 /\ left' = [left EXCEPT !.command = @ - 1]

\* Reconfigure, of SavePublicAccessSettings and GeneratePlayerPassword; a save of a document.
Save ==
  /\ Asked
  /\ \E changes \in IF Keeps THEN Offered ELSE {Kept} :
       Begin("save", changes, Mutation(changes) \o (IF Keeps THEN Both("presence") ELSE <<>>) \o Saving)
\* WithSecrets, of StartPublicAccess and CopyPublicAccessCredentials.
Use ==
  /\ Asked /\ Keeps
  /\ \E secrets \in {Both("read"), Tail(Both("read"))} : Begin("use", Kept, secrets)
\* Initialize of the manager when the program starts.
Launch ==
  /\ ~manager.up /\ UNCHANGED left
  /\ Begin("launch", Kept, <<Task("load", None)>> \o (IF Keeps THEN Both("presence") ELSE <<>>))

Doing(do) == command # None /\ command.todo # <<>> /\ Head(command.todo).do = do
Done(c) == [c EXCEPT !.todo = Tail(@)]

CallStore ==
  /\ native = None
  /\ \E op \in {"update", "delete", "presence", "read"} :
       Doing(op) /\ native' = NativeCall(op, Head(command.todo).secret, command.number)
  /\ UNCHANGED <<host, keyring, orphans, command, disk, manager, allowed, owed, disturbed, left>>

\* Replace: what cannot be updated is added.
Adds(n) == n.op = "update" /\ n.result = "not found"
\* Delete: what is not there counts as deleted.
Succeeds(n) == n.result \in {"ok", "present", "absent"} \/ (n.result = "not found" /\ n.op = "delete")

\* A change that fails ends the command after reconcilePresence, a secret that cannot be read ends it at once.
Failed(c, n) == [c EXCEPT !.failed = TRUE, !.todo = IF n.op = "read" THEN <<>> ELSE Both("presence")]
\* Presence: a failed reading is SecretUnknown, and the command fails after both.
Read(c, n) ==
  [Done(c) EXCEPT !.failed = @ \/ ~Succeeds(n),
                  !.readings[n.secret] = IF Succeeds(n) THEN n.result ELSE "unknown"]

StoreReturns ==
  /\ native # None /\ native.result # None
  /\ IF Adds(native)
     THEN native' = NativeCall("add", native.secret, native.value) /\ UNCHANGED command
     ELSE /\ native' = None
          /\ command' = CASE native.op = "presence" -> Read(command, native)
                          [] native.op # "presence" /\ Succeeds(native) -> Done(command)
                          [] OTHER -> Failed(command, native)
  /\ UNCHANGED <<host, keyring, orphans, disk, manager, allowed, owed, disturbed, left>>

-----------------------------------------------------------------------------
(* The file.                                                               *)

Written(c) == [stamp |-> c.number, synced |-> FALSE, whole |-> TRUE]

\* Mutant of Synced: the contents are not flushed before the rename.
SyncedLater(file) == file
Synced(file) == [file EXCEPT !.synced = TRUE]

\* A file that cannot be read leaves the defaults in use; one that is no settings document is
\* moved aside, if that succeeds.
Load ==
  /\ Doing("load")
  /\ \/ command' = [Done(command) EXCEPT !.settings = disk.file.stamp] /\ UNCHANGED disk
     \/ command' = [Done(command) EXCEPT !.settings = 0] /\ UNCHANGED disk
     \/ ~disk.file.whole /\ command' = Done(command) /\ disk' = [disk EXCEPT !.file = Absent]
  /\ UNCHANGED <<host, keyring, orphans, native, manager, allowed, owed, disturbed, left>>

FileStep(do, d) ==
  /\ Doing(do) /\ ~command.failed /\ disk' = d /\ command' = Done(command)
  /\ UNCHANGED <<host, keyring, orphans, native, manager, allowed, owed, disturbed, left>>

Write == FileStep("write", [disk EXCEPT !.temporary = Written(command)])
Sync == FileStep("sync", [disk EXCEPT !.temporary = Synced(disk.temporary)])
Rename == FileStep("rename", [disk EXCEPT !.file = disk.temporary, !.temporary = None])
Secure == FileStep("secure", disk)
Flush == FileStep("flush", [disk EXCEPT !.durable = disk.file])

\* What fails before the rename removes the temporary file, what fails after it leaves the new one.
FileFails ==
  /\ \E do \in FileTasks : Doing(do)
  /\ ~command.failed
  /\ command' = [command EXCEPT !.failed = TRUE, !.todo = <<>>]
  /\ disk' = [disk EXCEPT !.temporary = None]
  /\ UNCHANGED <<host, keyring, orphans, native, manager, allowed, owed, disturbed, left>>

-----------------------------------------------------------------------------
(* Answers, and what they promise.                                         *)

\* A change that was answered with success has taken effect, another one may have, in part.
Effects(change, value, items) ==
  CASE change = "keep" -> {items} [] change = "update" -> Created(items, value) [] change = "delete" -> {{}}
MayLeave(change, value, items) ==
  {items} \cup (IF change = "delete" THEN SUBSET items ELSE Effects(change, value, items))
Promised(c, ok) ==
  [s \in Secret |-> UNION {IF ok THEN Effects(c.changes[s], c.number, items)
                           ELSE MayLeave(c.changes[s], c.number, items) : items \in allowed[s]}]

\* A command that failed does not touch the file.
Remaining(c) == {i \in 1 .. Len(c.todo) : c.failed => c.todo[i].do \notin FileTasks}
Finished == command # None /\ Remaining(command) = {}

\* The settings and the readings become current; after a failure, the readings.
Answer ==
  /\ Finished /\ native = None
  /\ command' = None
  /\ manager' = CASE command.kind = "use" -> manager
                  [] command.kind = "launch" -> [up |-> TRUE, settings |-> command.settings, presence |-> command.readings]
                  [] command.kind = "save" ->
                       [manager EXCEPT !.settings = IF command.failed THEN @ ELSE command.number, !.presence = command.readings]
  /\ allowed' = Promised(command, ~command.failed)
  /\ owed' = IF command.kind = "save" /\ ~command.failed THEN command.number ELSE owed
  /\ UNCHANGED <<host, keyring, orphans, native, disk, disturbed, left>>

-----------------------------------------------------------------------------
(* Crashes, and other programs.                                            *)

Mishap == left.mishap > 0 /\ left' = [left EXCEPT !.mishap = @ - 1]

\* A native call may still be carried out, or its prompt stay.
Abandoned ==
  \/ Calling /\ CarriedOut(native) /\ UNCHANGED <<orphans, disturbed>>
  \/ Calling /\ Stays(native) /\ UNCHANGED keyring
  \/ UNCHANGED <<keyring, orphans, disturbed>>

Crashes ==
  /\ Mishap
  /\ manager.up \/ command # None
  /\ native' = None /\ command' = None
  /\ manager' = [up |-> FALSE, settings |-> 0, presence |-> Unknown]
  /\ allowed' = IF command = None THEN allowed ELSE Promised(command, FALSE)

ProcessDies ==
  /\ Crashes /\ Abandoned /\ disk' = [disk EXCEPT !.temporary = None]
  /\ UNCHANGED <<host, owed>>

\* A rename may be lost that was not flushed with the directory, and contents that were not flushed.
Survives(file) == {file} \cup (IF file.synced THEN {} ELSE {Rubbish})
PowerFails ==
  /\ Crashes
  /\ \E file \in Survives(disk.file) \cup Survives(disk.durable) :
       /\ disk' = [file |-> [file EXCEPT !.synced = TRUE], durable |-> [file EXCEPT !.synced = TRUE], temporary |-> None]
       /\ owed' = IF owed # None /\ ~Keeps /\ file.whole THEN file.stamp ELSE owed
  /\ orphans' = {}
  /\ \/ UNCHANGED keyring
     \/ Calling /\ CarriedOut(native)
  /\ UNCHANGED <<host, disturbed>>

\* Another program adds or removes an item while the application is down or in a call.
ForeignItem ==
  /\ Mishap /\ Keeps
  /\ \E s \in Secret :
       /\ \E items \in {keyring[s] \cup {Foreign} : x \in IF host.system = "linux" \/ keyring[s] = {} THEN {1} ELSE {}}
                       \cup {keyring[s] \ {i} : i \in keyring[s]} :
            /\ keyring' = [keyring EXCEPT ![s] = items]
            /\ allowed' = IF command = None THEN [allowed EXCEPT ![s] = {items}] ELSE allowed
       /\ \/ ~manager.up /\ command = None /\ UNCHANGED disturbed
          \/ Calling /\ disturbed' = disturbed \cup {s}
  /\ UNCHANGED <<host, orphans, native, command, disk, manager, owed>>

\* The file is edited by hand and is no document any more.
ForeignFile ==
  /\ Mishap /\ Keeps
  /\ command = None /\ disk' = [disk EXCEPT !.file = Rubbish, !.durable = Rubbish] /\ owed' = None
  /\ UNCHANGED <<host, keyring, orphans, native, command, manager, allowed, disturbed>>

-----------------------------------------------------------------------------
Asking == Save \/ Use \/ Launch
Native == NativeReplies \/ NativeFails \/ Deadline
Storing == Write \/ Sync \/ Rename \/ Secure \/ Flush \/ FileFails \/ Load
Working == CallStore \/ StoreReturns \/ Storing \/ Answer
Others == NativePrompts \/ PromptAccepted \/ PromptDismissed \/ PromptAnsweredLate \/ ForeignItem \/ ForeignFile
Next == Asking \/ Native \/ Working \/ Others \/ ProcessDies \/ PowerFails

Spec == Init /\ [][Next]_vars

(* Calls return, on Linux by their deadline; nobody has to answer a prompt. *)
FairSpec == Spec /\ WF_vars(Native) /\ WF_vars(Working)

-----------------------------------------------------------------------------
(* Every variable keeps its type.                                           *)
TypeOK ==
  /\ host \in [system : System, store : {"settings"}] \cup {[system |-> None, store |-> "documents"]}
  /\ keyring \in [Secret -> SUBSET Nat] /\ allowed \in [Secret -> SUBSET SUBSET Nat]
  /\ orphans \subseteq NativeCalls /\ native \in NativeCalls \cup {None} /\ command \in Commands \cup {None}
  /\ disk \in [file : File, durable : File, temporary : File \cup {None}]
  /\ manager \in [up : BOOLEAN, settings : Nat, presence : Readings]
  /\ owed \in Nat \cup {None} /\ disturbed \subseteq Secret
  /\ left \in [command : 0 .. MaxCommand, mishap : 0 .. MaxMishap]

AtRest == command = None

(* Between commands the keyring holds what the answers allow: a change that *)
(* was answered with success is there alone in its secret's place, one that *)
(* failed is there, not there, or half done when several items had to go,   *)
(* and a prompt nobody waits for any more changes nothing, unless it could  *)
(* not be dismissed.  What the window shows of a secret is true or unknown. *)
SecretsFollowTheAnswers ==
  AtRest => \A s \in Secret \ disturbed :
                 /\ keyring[s] \in allowed[s]
                 /\ manager.presence[s] # "unknown" => (manager.presence[s] = "present" <=> keyring[s] # {})

(* No crash and no loss of power leaves a file that cannot be read, or one  *)
(* older than the last save that was answered with success; for documents   *)
(* a loss of power may.  The settings in use are never newer than those the *)
(* next launch will find.  A file damaged by hand owes nothing until the    *)
(* next save.                                                               *)
SettingsSurvive ==
  /\ owed # None => disk.file.whole /\ disk.file.stamp >= owed
  /\ owed # None => manager.settings <= disk.file.stamp

(* Every command is answered, although nobody answers a prompt.             *)
CommandsEnd == command # None ~> command = None
=============================================================================
