---------------------------- MODULE ArtifactStore ----------------------------
(***************************************************************************)
(* The content-addressed store of the native runtime and the two models.   *)
(* Any number of setup processes may run; an exclusive file lock, which    *)
(* the operating system takes back from a process that dies, lets one      *)
(* write at a time.  Processes that inspect the store or load the engines  *)
(* take no lock.  A process can die between any two steps, what is on disk *)
(* can be damaged, and an I/O or network operation can fail.  Most such    *)
(* failures end setup; but whatever keeps a whole tree from being verified *)
(* makes it as good as invalid, so that it is moved away, and a path whose *)
(* metadata cannot be read counts as one where nothing lies.               *)
(***************************************************************************)
EXTENDS Naturals, Sequences

CONSTANTS
  Profile,     \* the artifacts of the platform, in the order setup takes them
  Setups,      \* processes that run `setup` once
  MaxFaults    \* bound on failures, crashes and damage together

Artifacts == {Profile[i] : i \in 1..Len(Profile)}

ASSUME ProfileAssumption ==
  /\ Profile \in Seq(Artifacts) /\ Profile # <<>>
  /\ "free" \notin Setups
  /\ MaxFaults \in Nat

VARIABLES
  object,      \* what lies at each artifact's content-addressed path
  archive,     \* the downloaded archive of each artifact
  lock,        \* the holder of .setup.lock, or "free"
  pc,          \* program counter of each process
  at,          \* the artifact each process has come to, an index into Profile
  offline,     \* the setups that were started with --offline
  staging,     \* the staging directory of each setup
  vouched,     \* artifacts some process has found verified, undamaged since
  faults       \* failures so far

diskVars == <<object, archive, staging>>
storeVars == <<diskVars, lock, pc, at, offline, vouched, faults>>

Tree == {"whole", "damaged"}   \* verify_object accepts exactly the whole ones

Holding == {"inspect", "recoverObject", "recoverUnread", "archive", "recoverArchive", "fetch", "stage",
            "extract", "verify", "recoverStaging", "activate"}
Over == {"ready", "failed"}   \* a setup that died has failed too

StoreTypeOK ==
  /\ object \in [Artifacts -> Tree \cup {"missing"}]
  /\ archive \in [Artifacts -> Tree \cup {"missing"}]
  /\ lock \in Setups \cup {"free"}
  /\ pc \in [Setups -> Holding \cup Over \cup {"idle", "locking"}]
  /\ at \in [Setups -> 1..Len(Profile)]
  /\ offline \in SUBSET Setups
  /\ staging \in [Setups -> Tree \cup {"missing", "partial"}]
  /\ vouched \in SUBSET Artifacts
  /\ faults \in 0..MaxFaults

StoreInit ==
  /\ object = [a \in Artifacts |-> "missing"]
  /\ archive = [a \in Artifacts |-> "missing"]
  /\ lock = "free"
  /\ pc = [p \in Setups |-> "idle"]
  /\ at = [p \in Setups |-> 1]
  /\ offline = {}
  /\ staging = [p \in Setups |-> "missing"]
  /\ vouched = {}
  /\ faults = 0

Goto(p, where) == pc' = [pc EXCEPT ![p] = where]
Current(p) == Profile[at[p]]
Holds(p, where) == pc[p] = where

\* An operation fails that does not end setup by itself.
Fault == faults < MaxFaults /\ faults' = faults + 1

-----------------------------------------------------------------------------
(***************************************************************************)
(* setup(): the lock, then one artifact after the other.                   *)
(***************************************************************************)

Start(p) ==
  /\ pc[p] = "idle"
  /\ Goto(p, "locking")
  /\ offline' \in {offline, offline \cup {p}}
  /\ UNCHANGED <<diskVars, lock, at, vouched, faults>>

\* Bug: an advisory lock that does not keep a second setup out.
LockShared(p) ==
  /\ pc[p] = "locking"
  /\ lock' = p
  /\ Goto(p, "inspect")
  /\ UNCHANGED <<diskVars, at, offline, vouched, faults>>

Lock(p) ==
  /\ pc[p] = "locking"
  /\ lock = "free"
  /\ lock' = p
  /\ Goto(p, "inspect")
  /\ UNCHANGED <<diskVars, at, offline, vouched, faults>>

\* The result of one artifact is recorded; after the last one setup reports "ready".
Advance(p) ==
  IF at[p] = Len(Profile) THEN Goto(p, "ready") /\ lock' = "free" /\ UNCHANGED at
  ELSE at' = [at EXCEPT ![p] = @ + 1] /\ Goto(p, "inspect") /\ UNCHANGED lock

\* An error leaves setup() and with it the lock.
Refuse(p) == Goto(p, "failed") /\ lock' = "free" /\ UNCHANGED at

\* Nothing at the path: an offline setup gives up, another one goes for the archive.
Absent(p) == IF p \in offline THEN Refuse(p) ELSE Goto(p, "archive") /\ UNCHANGED <<lock, at>>

\* Any error of the verification makes the object invalid, a failed read of a whole
\* one too; and an object whose metadata cannot be read seems not to be there.
InspectObject(p) ==
  /\ Holds(p, "inspect")
  /\ \/ /\ object[Current(p)] = "whole"
        /\ Advance(p)
        /\ vouched' = vouched \cup {Current(p)}
        /\ UNCHANGED faults
     \/ /\ object[Current(p)] = "whole" /\ Fault
        /\ Goto(p, "recoverUnread")
        /\ UNCHANGED <<lock, at, vouched>>
     \/ /\ object[Current(p)] = "damaged"
        /\ Goto(p, "recoverObject")
        /\ UNCHANGED <<lock, at, vouched, faults>>
     \/ /\ IF object[Current(p)] = "missing" THEN UNCHANGED faults ELSE Fault
        /\ Absent(p)
        /\ UNCHANGED vouched
  /\ UNCHANGED <<diskVars, offline>>

\* The invalid object is moved out of the way, offline too, before offline gives up.
\* One that cannot be seen any more is left where it is.
RecoverObject(p) ==
  /\ pc[p] \in {"recoverObject", "recoverUnread"}
  /\ \/ /\ object' = [object EXCEPT ![Current(p)] = "missing"]
        /\ vouched' = IF pc[p] = "recoverUnread" THEN vouched \ {Current(p)} ELSE vouched
        /\ UNCHANGED faults
     \/ Fault /\ UNCHANGED <<object, vouched>>
  /\ Absent(p)
  /\ UNCHANGED <<archive, staging, offline>>

-----------------------------------------------------------------------------
(***************************************************************************)
(* The archive: verified if it is there, moved away if it is invalid,      *)
(* downloaded into a file of its own and renamed once its size and digest  *)
(* are right.                                                              *)
(***************************************************************************)

\* Bug: an archive that exists is taken as it is.
ArchiveTrusted(p) ==
  /\ Holds(p, "archive")
  /\ Goto(p, IF archive[Current(p)] = "missing" THEN "fetch" ELSE "stage")
  /\ UNCHANGED <<diskVars, lock, at, offline, vouched, faults>>

\* As for an object; setup asks twice whether the archive is there, and either
\* answer may fail.
InspectArchive(p) ==
  /\ Holds(p, "archive")
  /\ \/ /\ \/ archive[Current(p)] = "whole" /\ Goto(p, "stage")
           \/ archive[Current(p)] = "damaged" /\ Goto(p, "recoverArchive")
           \/ archive[Current(p)] = "missing" /\ Goto(p, "fetch")
        /\ UNCHANGED faults
     \/ /\ archive[Current(p)] # "missing" /\ Fault
        /\ \E where \in {"recoverArchive", "fetch", "stage"} : Goto(p, where)
  /\ UNCHANGED <<diskVars, lock, at, offline, vouched>>

RecoverArchive(p) ==
  /\ Holds(p, "recoverArchive")
  /\ \/ /\ archive' = [archive EXCEPT ![Current(p)] = "missing"]
        /\ Goto(p, "fetch")
        /\ UNCHANGED faults
     \/ /\ Fault /\ UNCHANGED archive
        /\ \E where \in {"fetch", "stage"} : Goto(p, where)
  /\ UNCHANGED <<object, staging, lock, at, offline, vouched>>

Download(p) ==
  /\ Holds(p, "fetch")
  /\ archive' = [archive EXCEPT ![Current(p)] = "whole"]
  /\ Goto(p, "stage")
  /\ UNCHANGED <<object, staging, lock, at, offline, vouched, faults>>

-----------------------------------------------------------------------------
(***************************************************************************)
(* Staging: extraction into a fresh directory, its inventory written and   *)
(* synced last, the verification of the whole tree, one rename.            *)
(***************************************************************************)

Stage(p) ==
  /\ Holds(p, "stage")
  /\ staging' = [staging EXCEPT ![p] = "partial"]
  /\ Goto(p, "extract")
  /\ UNCHANGED <<object, archive, lock, at, offline, vouched, faults>>

\* The archive is verified again before it is read.  Extraction can fail half way,
\* and the tree can come out wrong.
Extract(p) ==
  /\ Holds(p, "extract")
  /\ \/ /\ IF archive[Current(p)] = "whole" THEN Fault ELSE UNCHANGED faults
        /\ Goto(p, "recoverStaging")
        /\ UNCHANGED staging
     \/ /\ archive[Current(p)] = "whole"
        /\ \/ staging' = [staging EXCEPT ![p] = "whole"] /\ UNCHANGED faults
           \/ staging' = [staging EXCEPT ![p] = "damaged"] /\ Fault
        /\ Goto(p, "verify")
  /\ UNCHANGED <<object, archive, lock, at, offline, vouched>>

\* Bug: the staged tree is not verified.
ActivateUnverified(p) ==
  /\ Holds(p, "verify")
  /\ Goto(p, "activate")
  /\ UNCHANGED <<diskVars, lock, at, offline, vouched, faults>>

VerifyStaging(p) ==
  /\ Holds(p, "verify")
  /\ \/ /\ Goto(p, IF staging[p] = "whole" THEN "activate" ELSE "recoverStaging")
        /\ UNCHANGED faults
     \/ Fault /\ Goto(p, "recoverStaging")
  /\ UNCHANGED <<diskVars, lock, at, offline, vouched>>

RecoverStaging(p) ==
  /\ Holds(p, "recoverStaging")
  /\ staging' = [staging EXCEPT ![p] = "missing"]
  /\ Refuse(p)
  /\ UNCHANGED <<object, archive, offline, vouched, faults>>

\* rename(2) does not replace a directory that has files in it.
Activate(p) ==
  /\ Holds(p, "activate")
  /\ IF object[Current(p)] = "missing"
     THEN /\ object' = [object EXCEPT ![Current(p)] = staging[p]]
          /\ staging' = [staging EXCEPT ![p] = "missing"]
          /\ vouched' = vouched \cup {Current(p)}
          /\ Advance(p)
     ELSE Refuse(p) /\ UNCHANGED <<object, staging, vouched>>
  /\ UNCHANGED <<archive, offline, faults>>

-----------------------------------------------------------------------------
(***************************************************************************)
(* Any process, status, doctor and serve included, may verify an object    *)
(* without the lock, or fail to read it; EngineLoader follows the ones     *)
(* that do.                                                                *)
(***************************************************************************)
Verify(a) ==
  /\ object[a] = "whole"
  /\ vouched' = vouched \cup {a}
  /\ UNCHANGED <<diskVars, lock, pc, at, offline, faults>>

ReadFails(a) ==
  /\ object[a] = "whole" /\ Fault
  /\ UNCHANGED <<diskVars, lock, pc, at, offline, vouched>>

-----------------------------------------------------------------------------
(***************************************************************************)
(* Faults.                                                                 *)
(***************************************************************************)

\* The process dies, or an operation fails that ends setup with an error: a rename
\* into recovery or into place, a directory that cannot be made, the download.  The
\* lock is free, files stay where they are.
Abort(p) ==
  /\ pc[p] \in Holding \cup {"locking"}
  /\ Fault
  /\ Goto(p, "failed")
  /\ lock' = IF lock = p THEN "free" ELSE lock
  /\ UNCHANGED <<diskVars, at, offline, vouched>>

\* An installed tree or a downloaded archive loses its content.
Damage(a) ==
  /\ Fault
  /\ \/ /\ object[a] = "whole"
        /\ object' = [object EXCEPT ![a] = "damaged"]
        /\ vouched' = vouched \ {a}
        /\ UNCHANGED archive
     \/ /\ archive[a] = "whole"
        /\ archive' = [archive EXCEPT ![a] = "damaged"]
        /\ UNCHANGED <<object, vouched>>
  /\ UNCHANGED <<staging, lock, pc, at, offline>>

SetupStep(p) ==
  \/ Lock(p) \/ InspectObject(p) \/ RecoverObject(p)
  \/ InspectArchive(p) \/ RecoverArchive(p) \/ Download(p)
  \/ Stage(p) \/ Extract(p) \/ VerifyStaging(p) \/ RecoverStaging(p) \/ Activate(p)

StoreNext ==
  \/ \E p \in Setups : Start(p) \/ SetupStep(p) \/ Abort(p)
  \/ \E a \in Artifacts : Verify(a) \/ ReadFails(a) \/ Damage(a)

\* A setup that runs keeps running; the lock is passed on when its holder is done.
StoreFairness == \A p \in Setups : WF_storeVars(SetupStep(p))

StoreSpec == StoreInit /\ [][StoreNext]_storeVars /\ StoreFairness

-----------------------------------------------------------------------------
(***************************************************************************)
(* Properties.                                                             *)
(***************************************************************************)

\* What any process was told is verified, or installed itself, stays at its
\* path until it is damaged or a setup fails to read it: no setup moves another
\* good object away, not even one that decided to recover a bad object before
\* another setup replaced it.
VouchedStays == \A a \in vouched : object[a] = "whole"

(***************************************************************************)
(* Why it does: whoever works on the store holds the lock, so what it saw  *)
(* at its artifact's path is still there when it acts on it.  In           *)
(* particular the rename of a staged tree finds the path empty, unless     *)
(* something failed and the object there was overlooked.                   *)
(***************************************************************************)
Building == Holding \ {"inspect", "recoverObject", "recoverUnread"}

LockHeld == \A p \in Setups : pc[p] \in Holding => lock = p

SlotAsSeen ==
  \A p \in Setups :
    /\ pc[p] = "recoverObject" => object[Current(p)] = "damaged"
    /\ pc[p] = "recoverUnread" => object[Current(p)] # "missing"
    /\ pc[p] \in Building /\ faults = 0 => object[Current(p)] = "missing"
    /\ pc[p] = "activate" => staging[p] = "whole"

StoreInv == StoreTypeOK /\ VouchedStays /\ LockHeld /\ SlotAsSeen

\* A setup moves away a whole object it could not read.
TakesUnread(a) ==
  /\ object[a] = "whole" /\ object'[a] = "missing"
  /\ \E p \in Setups : pc[p] = "recoverUnread" /\ Current(p) = a

\* At an artifact's path a whole tree appears at once, only damage from outside
\* changes it, and only a damaged tree is taken away, or one whose verification a
\* failed read has ended: no crash, no other failure and no second setup leaves
\* anything else there.
SlotLifecycle ==
  [][\A a \in Artifacts :
       \/ <<object[a], object'[a]>> \in {<<o, o>> : o \in Tree \cup {"missing"}}
            \cup {<<"missing", "whole">>, <<"whole", "damaged">>, <<"damaged", "missing">>}
       \/ TakesUnread(a)]_storeVars

\* After the last fault, whatever crashes and damage left behind, a setup that
\* is online and still has its turn to come installs the whole profile.
SetupRepairs ==
  \A p \in Setups :
    faults = MaxFaults /\ pc[p] = "locking" /\ p \notin offline ~> pc[p] = "ready"
=============================================================================
