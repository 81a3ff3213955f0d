------------------------------ MODULE NodeHome ------------------------------
(***************************************************************************)
(* The commands of a node's owner and the files they share: `dozzze start` *)
(* and `stop` with the pidfile (commands/start.ts, commands/stop.ts,       *)
(* pid.ts), `wallet create` and `wallet import` with the keystore          *)
(* (commands/wallet.ts, wallet.ts), `config set` with the configuration    *)
(* (commands/config.ts, config.ts), all in packages/node/src.              *)
(*                                                                         *)
(* Each command is a process that runs once.  Files are not locked, and    *)
(* fs.writeFile truncates a file before it fills it, so a file is Torn in  *)
(* between, and for good when the writer dies.  A wallet is named by the   *)
(* command that made it, a configuration by the patches in force, at most  *)
(* one per key; a patch of a key that the schema does not know, as a dotted*)
(* one, is in force nowhere.                                               *)
(* The configuration asks for a wallet, which is its default.              *)
(***************************************************************************)
EXTENDS Naturals, FiniteSets

CONSTANTS
  Starter, Stopper, Creator, Setter,  \* invocations of the four commands
  Pid,                                \* process ids of this machine
  OldWallet,                          \* the wallet an old keystore holds
  Key,                                \* keys of the configuration's schema
  NoKey,                              \* a key that the schema does not know
  NoFile, Torn, NoPid,
  Environments

Command == Starter \cup Stopper \cup Creator \cup Setter

Wallet == Creator \cup {OldWallet}

(* overlap: a command begins before the previous one ended; impatient: a   *)
(* node is started while another one is up; reuse: the id of an ended      *)
(* process is given to a new one; digits: process ids differ in length;    *)
(* crash: a process is killed; refuse: a runtime or a password is missing, *)
(* the owner says no, a patch is not valid.                                *)
Fault == {"overlap", "impatient", "reuse", "digits", "crash", "refuse"}

(* foreground: nodes started with --foreground; settling: settlement is    *)
(* enabled; strangers: processes that are no nodes; fresh: neither keystore *)
(* nor configuration exists yet; sets: the key each `config set` is given. *)
Environment ==
  [faults : SUBSET Fault, commands : SUBSET Command, foreground : SUBSET Starter,
   settling : BOOLEAN, strangers : SUBSET Pid, fresh : BOOLEAN,
   sets : [Setter -> Key \cup {NoKey}]]

ASSUME NodeHomeAssumption ==
  /\ {NoFile, Torn, NoPid} \cap (Pid \cup Wallet) = {}
  /\ \A patches \in SUBSET Setter : patches \notin {NoFile, Torn}
  /\ NoFile # Torn
  /\ NoKey \notin Key
  /\ OldWallet \notin Creator
  /\ Starter \cap Stopper = {}
  /\ Creator \cap (Starter \cup Stopper) = {}
  /\ Setter \cap (Starter \cup Stopper \cup Creator) = {}
  /\ Environments \subseteq Environment

VARIABLES
  env,
  pc,         \* how far each command is
  pid,        \* of each start command, the last one it had
  strangers,  \* process ids held by other programs
  pidfile, keystore, config,
  linked,     \* starts whose open descriptor is the present pidfile
  target,     \* the id each stop command read
  draft,      \* the configuration each command is about to write
  signer,     \* of each start, the wallet whose key signs its memos, or NoFile
  payee,      \* of each start, the wallet its results are credited to, or NoFile
  asked,      \* wallet commands that found a keystore and were told to overwrite it
  hit         \* history: strangers that a stop command signalled

vars == <<env, pc, pid, strangers, pidfile, keystore, config, linked, target, draft,
          signer, payee, asked, hit>>

(* Steps of a command on its way, states of a node that is up, and ends; a *)
(* node that ends without its shutdown, and after it named itself in the   *)
(* pidfile, has died.                                                      *)
Working == {"boot", "load", "wallet", "unlock", "claim", "name", "peek",
            "read", "check", "clear", "signal", "ask", "open", "fill"}
Serving == {"live", "stopping"}
Ended == {"done", "failed", "died"}

TypeOK ==
  /\ env \in Environments
  /\ pc \in [Command -> {"idle"} \cup Working \cup Serving \cup Ended]
  /\ pid \in [Starter -> Pid \cup {NoPid}]
  /\ strangers \subseteq Pid /\ hit \subseteq Pid
  /\ pidfile \in Pid \cup {NoFile, Torn}
  /\ keystore \in Wallet \cup {NoFile, Torn}
  /\ config \in (SUBSET Setter) \cup {NoFile, Torn}
  /\ linked \subseteq Starter /\ asked \subseteq Creator
  /\ target \in [Stopper -> Pid \cup {NoPid}]
  /\ draft \in [Starter \cup Setter -> SUBSET Setter]
  /\ signer \in [Starter -> Wallet \cup {NoFile}]
  /\ payee \in [Starter -> Wallet \cup {NoFile}]

CanFail(faults) == env.faults \cap faults # {}

Init ==
  /\ env \in Environments
  /\ pc = [c \in Command |-> "idle"]
  /\ pid = [s \in Starter |-> NoPid]
  /\ strangers = env.strangers /\ hit = {}
  /\ pidfile = NoFile
  /\ keystore = IF env.fresh THEN NoFile ELSE OldWallet
  /\ config = IF env.fresh THEN NoFile ELSE {}
  /\ linked = {} /\ asked = {}
  /\ target = [t \in Stopper |-> NoPid]
  /\ draft = [c \in Starter \cup Setter |-> {}]
  /\ signer = [s \in Starter |-> NoFile]
  /\ payee = [s \in Starter |-> NoFile]

processes == <<pid, strangers, hit>>
pidfiles == <<pidfile, linked>>
accounts == <<signer, payee>>
memory == <<target, draft, accounts, asked>>

GoTo(c, step) == pc' = [pc EXCEPT ![c] = step]

(* What a file may hold once a writer that truncated it has filled it with *)
(* `new`: `mixed` if another writer filled it in between.                  *)
Filled(file, new, mixed) == IF file = Torn THEN {new} ELSE mixed

(* --------------------------- Starting a command ------------------------ *)

IsUp(s) == pc[s] \in Working \cup Serving

NodeAt(p) == {s \in Starter : pid[s] = p /\ IsUp(s)}

Used == strangers \cup {pid[s] : s \in Starter}

FreePids ==
  {p \in Pid : NodeAt(p) = {} /\ p \notin strangers /\ (CanFail({"reuse"}) \/ p \notin Used)}

MayBegin(c) ==
  /\ c \in env.commands
  /\ pc[c] = "idle"
  /\ CanFail({"overlap"}) \/ \A d \in Command : pc[d] \notin Working

StartNode(s) ==
  /\ MayBegin(s)
  /\ CanFail({"impatient"}) \/ \A r \in Starter : ~IsUp(r)
  /\ \E p \in FreePids : pid' = [pid EXCEPT ![s] = p]
  /\ GoTo(s, "boot")
  /\ UNCHANGED <<strangers, hit, pidfiles, keystore, config, memory>>

BeginCommand(c, first) ==
  /\ MayBegin(c)
  /\ GoTo(c, first)
  /\ UNCHANGED <<processes, pidfiles, keystore, config, memory>>

(* An unrelated program gets the id of a process that ended.               *)
StrangerStarts(p) ==
  /\ CanFail({"reuse"})
  /\ p \in FreePids
  /\ strangers' = strangers \cup {p}
  /\ UNCHANGED <<pc, pid, hit, pidfiles, keystore, config, memory>>

(* ------------------------- The configuration file ---------------------- *)

(* start: without a configuration the default one is about to be saved.    *)
FindConfig(s) ==
  /\ pc[s] = "boot"
  /\ GoTo(s, IF config = NoFile THEN "open" ELSE "load")
  /\ draft' = [draft EXCEPT ![s] = {}]
  /\ UNCHANGED <<processes, pidfiles, keystore, config, target, accounts, asked>>

(* Mutated form: the patch alone is saved.                                 *)
LoadAndPatchOnly(c) ==
  /\ pc[c] = "read"
  /\ config # Torn
  /\ GoTo(c, "open")
  /\ draft' = [draft EXCEPT ![c] = {c}]
  /\ UNCHANGED <<processes, pidfiles, keystore, config, target, accounts, asked>>

(* The schema keeps the last value of each key it knows and strips the     *)
(* keys it does not know.                                                  *)
Patched(patches, c) ==
  IF env.sets[c] = NoKey THEN patches
  ELSE {d \in patches : env.sets[d] # env.sets[c]} \cup {c}

(* config set: what is on file, or the default, with the patch.  The       *)
(* command says "set" whatever the schema made of the patch.               *)
LoadAndPatch(c) ==
  /\ pc[c] = "read"
  /\ config # Torn
  /\ GoTo(c, "open")
  /\ draft' = [draft EXCEPT ![c] = Patched(IF config = NoFile THEN {} ELSE config, c)]
  /\ UNCHANGED <<processes, pidfiles, keystore, config, target, accounts, asked>>

(* The file or the patched configuration does not parse.                   *)
PatchFails(c) ==
  /\ pc[c] = "read"
  /\ config = Torn \/ CanFail({"refuse"})
  /\ GoTo(c, "failed")
  /\ UNCHANGED <<processes, pidfiles, keystore, config, memory>>

TruncateConfig(c) ==
  /\ pc[c] = "open"
  /\ config' = Torn
  /\ GoTo(c, "fill")
  /\ UNCHANGED <<processes, pidfiles, keystore, memory>>

FillConfig(c) ==
  /\ pc[c] = "fill"
  /\ config' \in Filled(config, draft[c], {draft[c], Torn})
  /\ GoTo(c, IF c \in Starter THEN "load" ELSE "done")
  /\ UNCHANGED <<processes, pidfiles, keystore, memory>>

(* ----------------------------- The keystore ---------------------------- *)

(* Mutated form: it does not look for a file.                              *)
FindKeystoreBlindly(c) ==
  /\ pc[c] = "ask"
  /\ GoTo(c, "open")
  /\ UNCHANGED <<processes, pidfiles, keystore, config, target, draft, accounts, asked>>

(* wallet create, wallet import: an existing file is overwritten only if   *)
(* the owner says so.                                                      *)
FindKeystore(c) ==
  /\ pc[c] = "ask"
  /\ asked' = IF keystore # NoFile THEN asked \cup {c} ELSE asked
  /\ GoTo(c, "open")
  /\ UNCHANGED <<processes, pidfiles, keystore, config, target, draft, accounts>>

(* Mutated form: it goes on although the owner says no.                    *)
CreatorGoesOn(c) ==
  /\ CanFail({"refuse"})
  /\ pc[c] = "ask"
  /\ GoTo(c, "open")
  /\ UNCHANGED <<processes, pidfiles, keystore, config, memory>>

(* The owner says no, the two passwords differ or are too short.           *)
CreatorGivesUp(c) ==
  /\ CanFail({"refuse"})
  /\ pc[c] \in {"ask", "open"}
  /\ GoTo(c, "failed")
  /\ UNCHANGED <<processes, pidfiles, keystore, config, memory>>

TruncateKeystore(c) ==
  /\ pc[c] = "open"
  /\ keystore' = Torn
  /\ GoTo(c, "fill")
  /\ UNCHANGED <<processes, pidfiles, config, memory>>

FillKeystore(c) ==
  /\ pc[c] = "fill"
  /\ keystore' \in Filled(keystore, c, {c, Torn})
  /\ GoTo(c, "done")
  /\ UNCHANGED <<processes, pidfiles, config, memory>>

(* -------------------------------- start -------------------------------- *)

LoadConfig(s) ==
  /\ pc[s] = "load"
  /\ GoTo(s, IF config = Torn THEN "failed" ELSE "wallet")
  /\ UNCHANGED <<processes, pidfiles, keystore, config, memory>>

CheckWallet(s) ==
  /\ pc[s] = "wallet"
  /\ GoTo(s, IF keystore \in {NoFile, Torn} THEN "failed" ELSE "unlock")
  /\ UNCHANGED <<processes, pidfiles, keystore, config, memory>>

(* The key that settles is the one on file when the password is entered.   *)
(* Without a runtime, or without the password settlement needs, no start.  *)
DetectAndUnlock(s) ==
  /\ pc[s] = "unlock"
  /\ \/ /\ env.settling => keystore \notin {NoFile, Torn}
        /\ signer' = [signer EXCEPT ![s] = IF env.settling THEN keystore ELSE NoFile]
        /\ GoTo(s, "claim")
     \/ /\ (env.settling /\ keystore \in {NoFile, Torn}) \/ CanFail({"refuse"})
        /\ GoTo(s, "failed")
        /\ UNCHANGED signer
  /\ UNCHANGED <<processes, pidfiles, keystore, config, target, draft, payee, asked>>

(* Mutated form: a pidfile that is there already is left alone.            *)
TruncatePidIfNone(s) ==
  /\ pc[s] = "claim"
  /\ s \notin env.foreground
  /\ IF pidfile = NoFile
     THEN pidfile' = Torn /\ linked' = linked \cup {s} /\ GoTo(s, "name")
     ELSE GoTo(s, "peek") /\ UNCHANGED pidfiles
  /\ UNCHANGED <<processes, keystore, config, memory>>

(* writePid truncates the pidfile, or makes a new one; in the foreground   *)
(* it is not called.                                                       *)
TruncatePid(s) ==
  /\ pc[s] = "claim"
  /\ s \notin env.foreground
  /\ pidfile' = Torn
  /\ linked' = linked \cup {s}
  /\ GoTo(s, "name")
  /\ UNCHANGED <<processes, keystore, config, memory>>

SkipPid(s) ==
  /\ pc[s] = "claim"
  /\ s \in env.foreground
  /\ GoTo(s, "peek")
  /\ UNCHANGED <<processes, pidfiles, keystore, config, memory>>

(* The write goes to the file that was opened, which may be unlinked by    *)
(* now.  Over a longer id a short one leaves the tail of the former.       *)
FillPid(s) ==
  /\ pc[s] = "name"
  /\ pidfile' \in IF s \notin linked THEN {pidfile}
                  ELSE Filled(pidfile, pid[s],
                              {pid[s]} \cup IF CanFail({"digits"}) THEN Pid ELSE {})
  /\ linked' = linked \ {s}
  /\ GoTo(s, "peek")
  /\ UNCHANGED <<processes, keystore, config, memory>>

(* The wallet's address is read again, before anything handles a signal.   *)
PeekAndGoLive(s) ==
  /\ pc[s] = "peek"
  /\ keystore # Torn
  /\ payee' = [payee EXCEPT ![s] = keystore]
  /\ GoTo(s, "live")
  /\ UNCHANGED <<processes, pidfiles, keystore, config, target, draft, signer, asked>>

PeekFails(s) ==
  /\ pc[s] = "peek"
  /\ keystore = Torn
  /\ GoTo(s, "died")
  /\ UNCHANGED <<processes, pidfiles, keystore, config, memory>>

(* The interval is unreferenced and a pending promise keeps nothing alive: *)
(* once no poll and no job is under way the process ends.                  *)
RunsDry(s) ==
  /\ pc[s] = "live"
  /\ GoTo(s, "died")
  /\ UNCHANGED <<processes, pidfiles, keystore, config, memory>>

(* Mutated form: shutdown exits without removing the pidfile.              *)
ShutdownLeavesPidfile(s) ==
  /\ pc[s] = "stopping"
  /\ GoTo(s, "done")
  /\ UNCHANGED <<processes, pidfiles, keystore, config, memory>>

(* shutdown unlinks the pidfile, whoever wrote it, and exits.              *)
Shutdown(s) ==
  /\ pc[s] = "stopping"
  /\ pidfile' = NoFile
  /\ linked' = {}
  /\ GoTo(s, "done")
  /\ UNCHANGED <<processes, keystore, config, memory>>

Killed(step) == IF step \in {"peek", "live", "stopping"} THEN "died" ELSE "failed"

(* What a signal makes of a node: shutdown if its handler is installed.    *)
Signalled(step) == IF step \in Serving THEN "stopping" ELSE Killed(step)

(* Ctrl-C.                                                                 *)
Interrupt(s) ==
  /\ IsUp(s)
  /\ pc[s] # "stopping"
  /\ GoTo(s, Signalled(pc[s]))
  /\ linked' = linked \ {s}
  /\ UNCHANGED <<processes, pidfile, keystore, config, memory>>

Crash(c) ==
  /\ CanFail({"crash"})
  /\ pc[c] \in Working \cup Serving
  /\ GoTo(c, Killed(pc[c]))
  /\ linked' = linked \ {c}
  /\ UNCHANGED <<processes, pidfile, keystore, config, memory>>

(* -------------------------------- stop --------------------------------- *)

(* Mutated form: whatever the file holds is taken for a number.            *)
ReadPidUnchecked(t) ==
  /\ pc[t] = "read"
  /\ GoTo(t, IF pidfile # NoFile THEN "check" ELSE "done")
  /\ target' = [target EXCEPT ![t] = IF pidfile # NoFile THEN pidfile ELSE NoPid]
  /\ UNCHANGED <<processes, pidfiles, keystore, config, draft, accounts, asked>>

(* A missing pidfile, or one that holds no number, means nothing to stop.  *)
ReadPid(t) ==
  /\ pc[t] = "read"
  /\ GoTo(t, IF pidfile \in Pid THEN "check" ELSE "done")
  /\ target' = [target EXCEPT ![t] = IF pidfile \in Pid THEN pidfile ELSE NoPid]
  /\ UNCHANGED <<processes, pidfiles, keystore, config, draft, accounts, asked>>

IsAlive(p) == NodeAt(p) # {} \/ p \in strangers

(* Mutated form: the test is the wrong way round.                          *)
ProbePidInverted(t) ==
  /\ pc[t] = "check"
  /\ GoTo(t, IF IsAlive(target[t]) THEN "clear" ELSE "signal")
  /\ UNCHANGED <<processes, pidfiles, keystore, config, memory>>

ProbePid(t) ==
  /\ pc[t] = "check"
  /\ GoTo(t, IF IsAlive(target[t]) THEN "signal" ELSE "clear")
  /\ UNCHANGED <<processes, pidfiles, keystore, config, memory>>

(* clearPid, whatever the file holds by now.                               *)
ClearPid(t) ==
  /\ pc[t] = "clear"
  /\ pidfile' = NoFile
  /\ linked' = {}
  /\ GoTo(t, "done")
  /\ UNCHANGED <<processes, keystore, config, memory>>

(* SIGTERM to whoever has the id by now; it fails if nobody has.           *)
SendStop(t) ==
  /\ pc[t] = "signal"
  /\ LET nodes == NodeAt(target[t]) IN
     /\ pc' = [c \in Command |->
                 IF c = t THEN IF IsAlive(target[t]) THEN "done" ELSE "failed"
                 ELSE IF c \in nodes THEN Signalled(pc[c])
                 ELSE pc[c]]
     /\ hit' = hit \cup (strangers \cap {target[t]})
     /\ linked' = linked \ nodes
  /\ UNCHANGED <<pid, strangers, pidfile, keystore, config, memory>>

(* ------------------------------- The system ---------------------------- *)

StartStep(s) ==
  \/ FindConfig(s) \/ TruncateConfig(s) \/ FillConfig(s) \/ LoadConfig(s)
  \/ CheckWallet(s) \/ DetectAndUnlock(s)
  \/ TruncatePid(s) \/ SkipPid(s) \/ FillPid(s) \/ PeekAndGoLive(s) \/ PeekFails(s)
  \/ Shutdown(s)

StopStep(t) == ReadPid(t) \/ ProbePid(t) \/ ClearPid(t) \/ SendStop(t)

WalletStep(c) == FindKeystore(c) \/ TruncateKeystore(c) \/ FillKeystore(c)

ConfigStep(c) == LoadAndPatch(c) \/ PatchFails(c) \/ TruncateConfig(c) \/ FillConfig(c)

Next ==
  /\ UNCHANGED env
  /\ \/ \E s \in Starter : StartNode(s) \/ StartStep(s) \/ RunsDry(s) \/ Interrupt(s)
     \/ \E t \in Stopper : BeginCommand(t, "read") \/ StopStep(t)
     \/ \E c \in Creator : BeginCommand(c, "ask") \/ WalletStep(c) \/ CreatorGivesUp(c)
     \/ \E c \in Setter : BeginCommand(c, "read") \/ ConfigStep(c)
     \/ \E c \in Command : Crash(c)
     \/ \E p \in Pid : StrangerStarts(p)

Spec == Init /\ [][Next]_vars

(* A command that was begun goes on: its steps are file operations, probes *)
(* with a timeout and prompts that are answered.                           *)
FairSpec ==
  /\ Spec
  /\ \A s \in Starter : WF_vars(UNCHANGED env /\ StartStep(s))
  /\ \A t \in Stopper : WF_vars(UNCHANGED env /\ StopStep(t))
  /\ \A c \in Creator : WF_vars(UNCHANGED env /\ WalletStep(c))
  /\ \A c \in Setter : WF_vars(UNCHANGED env /\ ConfigStep(c))

(* ------------------------------ Properties ----------------------------- *)

(* README.md:362, "PID of the running node (removed on clean shutdown)":   *)
(* however commands interleave and whatever dies, the pidfile names a node *)
(* that wrote it and is up, or one that ended without its shutdown; never  *)
(* one that shut down or has not got that far.  Two starts may mix ids of  *)
(* different length.                                                       *)
PidfileNamesANode ==
  pidfile \in Pid /\ ~CanFail({"digits"}) =>
    \E s \in Starter \ env.foreground :
      pid[s] = pidfile /\ pc[s] \in {"peek", "live", "stopping", "died"}

(* One node at a time, in the background, and commands that do not overlap.*)
Patient == ~CanFail({"overlap", "impatient"}) /\ env.foreground = {}

WorkOneByOne ==
  \A c, d \in Command : pc[c] \in Working /\ pc[d] \in Working => c = d

StartedHasPid == \A s \in Starter : pc[s] # "idle" => pid[s] \in Pid

OnlyBackgroundNames == \A s \in Starter : pc[s] = "name" => s \notin env.foreground

OneAtATime ==
  /\ WorkOneByOne
  /\ \A r, s \in Starter : IsUp(r) /\ IsUp(s) => r = s

WriterHoldsFile == \A s \in Starter : pc[s] = "name" => s \in linked /\ pidfile = Torn

NamedByFile == \A s \in Starter : pc[s] \in {"peek", "live", "stopping"} => pidfile = pid[s]

StopSeesTheNode ==
  \A t \in Stopper, s \in Starter :
    IsUp(s) => pc[t] # "clear" /\ (pc[t] = "check" => target[t] = pid[s])

PidfileIsRight == OneAtATime /\ WriterHoldsFile /\ NamedByFile /\ StopSeesTheNode

(* The inductive invariant behind PidfileNamesANode and LiveNodeIsFindable:*)
(* a node that is up has an id, only the one writer of the pidfile leaves  *)
(* it torn, the pidfile names the node from then on, and a `stop` that     *)
(* found it stale, or is about to ask, is right about it (start.ts 85-112, *)
(* stop.ts 6-22).                                                          *)
NodeInv ==
  /\ TypeOK
  /\ StartedHasPid
  /\ OnlyBackgroundNames
  /\ PidfileNamesANode
  /\ Patient => PidfileIsRight

(* Where one node runs at a time, in the background, and commands do not   *)
(* overlap, `stop` and `status` find a live node: neither the shutdown of  *)
(* an earlier one nor the clean-up of its stale pidfile removes its name.  *)
LiveNodeIsFindable ==
  Patient => \A s \in Starter : pc[s] = "live" => pidfile = pid[s]

MadeWallets ==
  {c \in Creator : pc[c] = "done"} \cup (IF env.fresh THEN {} ELSE {OldWallet})

(* README.md:370: a wallet whose creation succeeded, or that was there,    *)
(* stays the one on file until a wallet command was told to overwrite it,  *)
(* even if commands die while they write (wallet commands one at a time).  *)
WalletsAreKept ==
  ~CanFail({"overlap"}) =>
    \A w \in MadeWallets : keystore = w \/ \E c \in asked \ {w} : pc[c] # "open"

(* d is the patch c, or a later one of its key: the configuration that c   *)
(* saved did not hold it.                                                  *)
Supersedes(d, c) == env.sets[d] = env.sets[c] /\ (d = c \/ d \notin draft[c])

(* A patch of a known key that `config set` acknowledged is in force, or a *)
(* later acknowledged one of the same key is, unless a writer died and     *)
(* left the file unreadable: neither a patch of another key nor the first  *)
(* start's defaults drop it, and no earlier value of its key outlives it   *)
(* (commands one at a time; config.ts 78-83, start.ts 20-22).              *)
PatchesAreKept ==
  ~CanFail({"overlap"}) /\ config # Torn =>
    \A c \in Setter : pc[c] = "done" /\ env.sets[c] # NoKey =>
      \E d \in config : pc[d] = "done" /\ Supersedes(d, c)

(* A node signs its memos and is credited with one and the same wallet,    *)
(* although it reads the keystore twice, and this is the one on file as    *)
(* long as it serves, unless its owner was asked and overwrote it          *)
(* (commands one at a time; start.ts 60-94, commands/wallet.ts 33-43).     *)
NodeEarnsForItsOwner ==
  ~CanFail({"overlap"}) =>
    \A s \in Starter : pc[s] \in Serving =>
      /\ env.settling => signer[s] = payee[s]
      /\ payee[s] = keystore \/ \E c \in asked \ {payee[s]} : pc[c] # "open"

SignerIsOnFile ==
  \A s \in Starter :
    /\ pc[s] \in {"unlock", "claim", "name", "peek"} \cup Serving => keystore # NoFile
    /\ env.settling /\ pc[s] \in {"claim", "name", "peek"} => signer[s] = keystore

OnlyMadeIsUsed ==
  \A c \in Creator : pc[c] \in {"idle", "ask", "open", "fill"} =>
    keystore # c /\ \A s \in Starter : payee[s] # c

AskedWhenFound ==
  \A c \in Creator :
    /\ pc[c] \in {"idle", "ask"} => c \notin asked
    /\ pc[c] = "open" => keystore = NoFile \/ c \in asked
    /\ pc[c] = "fill" => keystore = Torn

(* What is saved, or about to be, holds acknowledged patches and the       *)
(* command's own, and of every key set so far the last one.                *)
DraftHasPatches ==
  \A c \in Starter \cup Setter :
    /\ \A d \in draft[c] : d = c \/ pc[d] = "done"
    /\ pc[c] \in {"open", "fill"} =>
         \A d \in Setter :
           (pc[d] = "done" \/ d = c) /\ env.sets[d] # NoKey =>
             \E e \in draft[c] : Supersedes(e, d)
    /\ pc[c] = "fill" => config = Torn

OnFileIsPatched ==
  config \notin {NoFile, Torn} => \A d \in config : pc[d] = "done"

PatchedIsOnFile == \A c \in Setter : pc[c] = "done" => config # NoFile

(* The inductive invariant behind WalletsAreKept, PatchesAreKept and       *)
(* NodeEarnsForItsOwner: what a command found when it looked still holds   *)
(* when it writes, so the answer of the owner and the draft are about the  *)
(* file that is replaced, and what a start reads twice has not changed     *)
(* (commands/wallet.ts 33-57, config.ts 78-83, start.ts 20-94).            *)
FilesInv ==
  ~CanFail({"overlap"}) =>
    /\ WorkOneByOne
    /\ AskedWhenFound
    /\ DraftHasPatches
    /\ OnFileIsPatched
    /\ PatchedIsOnFile
    /\ WalletsAreKept
    /\ PatchesAreKept
    /\ SignerIsOnFile
    /\ OnlyMadeIsUsed
    /\ NodeEarnsForItsOwner

(* Where no process id is reused, `stop` signals no unrelated program.     *)
(* docs/architecture.md:127 says that its liveness check is enough where   *)
(* ids are reused.                                                         *)
StopSparesStrangers == hit = {}

(* Patient owner, no fault: a `stop` begun while a node is live ends it.   *)
StopWorks ==
  \A s \in Starter, t \in Stopper :
    pc[t] = "read" /\ pc[s] = "live" /\ env.faults = {} /\ env.foreground = {}
      ~> pc[s] \in Ended

(* commands/start.ts:115, "Keep the event loop alive by never resolving":  *)
(* a live node goes on until it is signalled.                              *)
RunsUntilSignalled ==
  [][\A s \in Starter : pc[s] = "live" => pc'[s] \in {"live", "stopping"}]_vars
=============================================================================
