---------------------------- MODULE EngineLoader ----------------------------
(***************************************************************************)
(* Who reads the artifact store without its lock.  doctor and status run   *)
(* inspect(): status() looks at every artifact, verified_profile() at all  *)
(* of them again, then runtime, recognizer and synthesizer are created for *)
(* a try.  serve runs VoiceEngines::load, which begins at the second step. *)
(* Setups, crashes and damage go on meanwhile.                             *)
(***************************************************************************)
EXTENDS ArtifactStore

CONSTANTS
  Loaders,   \* processes that run one of the two, once
  Hosts      \* the hosts there are: the artifacts each can load when they are whole

ASSUME HostsAssumption == Hosts \in SUBSET SUBSET Artifacts

VARIABLES
  command,     \* what each loader runs
  stage,       \* where it is
  place,       \* the artifact it has come to, an index into Profile
  complete,    \* status(): every artifact so far was verified
  loadable,    \* what this host can load
  undisturbed, \* loaders whose reads all went through, no object lost since they started
  relying      \* those of them that started after a try had succeeded

loaderVars == <<command, stage, place, complete, loadable, undisturbed, relying>>
systemVars == <<storeVars, loaderVars>>

LoaderTypeOK ==
  /\ command \in [Loaders -> {"none", "inspect", "load"}]
  /\ stage \in [Loaders -> {"idle", "survey", "verify", "native", "ready", "unready"}]
  /\ place \in [Loaders -> 1..Len(Profile)]
  /\ complete \in [Loaders -> BOOLEAN]
  /\ loadable \in Hosts
  /\ undisturbed \in SUBSET Loaders
  /\ relying \in SUBSET undisturbed

LoaderInit ==
  /\ command = [r \in Loaders |-> "none"]
  /\ stage = [r \in Loaders |-> "idle"]
  /\ place = [r \in Loaders |-> 1]
  /\ complete = [r \in Loaders |-> TRUE]
  /\ loadable \in Hosts
  /\ undisturbed = {}
  /\ relying = {}

Part(r) == Profile[place[r]]

Enter(r, where) == stage' = [stage EXCEPT ![r] = where]

\* On to the next artifact, or after the last one to another stage.
Proceed(r, where) ==
  IF place[r] = Len(Profile)
  THEN Enter(r, where) /\ place' = [place EXCEPT ![r] = 1]
  ELSE place' = [place EXCEPT ![r] = @ + 1] /\ UNCHANGED stage

Assured == \E d \in undisturbed : command[d] = "inspect" /\ stage[d] = "ready"

Begin(r) ==
  /\ stage[r] = "idle"
  /\ \/ command' = [command EXCEPT ![r] = "inspect"] /\ Enter(r, "survey")
     \/ command' = [command EXCEPT ![r] = "load"] /\ Enter(r, "verify")
  /\ undisturbed' = undisturbed \cup {r}
  /\ relying' = IF Assured THEN relying \cup {r} ELSE relying
  /\ UNCHANGED <<storeVars, place, complete, loadable>>

\* What is not whole cannot be used, nor a whole object while an I/O operation on it fails.
Unusable(r) ==
  \/ /\ object[Part(r)] # "whole"
     /\ UNCHANGED <<storeVars, undisturbed, relying>>
  \/ /\ ReadFails(Part(r))
     /\ undisturbed' = undisturbed \ {r} /\ relying' = relying \ {r}

Verified(r) == Verify(Part(r)) /\ UNCHANGED <<undisturbed, relying>>

\* status(): a missing or invalid artifact is noted, the others are looked at too.
Survey(r) ==
  /\ stage[r] = "survey"
  /\ \/ Verified(r) /\ UNCHANGED complete
     \/ Unusable(r) /\ complete' = [complete EXCEPT ![r] = FALSE]
  /\ Proceed(r, IF complete'[r] THEN "verify" ELSE "unready")
  /\ UNCHANGED <<command, loadable>>

\* Bug: a check that ends with the inventory.
VerifyOnly(r) ==
  /\ stage[r] = "verify"
  /\ \/ Verified(r) /\ Proceed(r, IF command[r] = "inspect" THEN "ready" ELSE "native")
     \/ Unusable(r) /\ Enter(r, "unready") /\ UNCHANGED place
  /\ UNCHANGED <<command, complete, loadable>>

\* verified_profile(): the first artifact that does not verify ends it.
VerifyPart(r) ==
  /\ stage[r] = "verify"
  /\ \/ Verified(r) /\ Proceed(r, "native")
     \/ Unusable(r) /\ Enter(r, "unready") /\ UNCHANGED place
  /\ UNCHANGED <<command, complete, loadable>>

\* The library is opened and a model read from the path that was verified a
\* moment ago; of a tree damaged since, the native code may or may not object.
\* The policies of the engines, made last, are constants but for the
\* concurrency, which ServerLimits has bounded.
LoadPart(r) ==
  /\ stage[r] = "native"
  /\ \/ /\ \/ object[Part(r)] = "whole" /\ Part(r) \in loadable
           \/ object[Part(r)] = "damaged"
        /\ Proceed(r, "ready")
        /\ UNCHANGED <<storeVars, undisturbed, relying>>
     \/ /\ \/ Unusable(r)
           \/ Part(r) \notin loadable /\ UNCHANGED <<storeVars, undisturbed, relying>>
        /\ Enter(r, "unready")
        /\ UNCHANGED place
  /\ UNCHANGED <<command, complete, loadable>>

LoaderStep(r) == Begin(r) \/ Survey(r) \/ VerifyPart(r) \/ LoadPart(r)

\* An object is lost to damage or to a setup that could not read it.
Harmed == \E a \in Artifacts : (object[a] = "whole" /\ object'[a] = "damaged") \/ TakesUnread(a)

StoreStep ==
  /\ StoreNext
  /\ IF Harmed THEN undisturbed' = {} /\ relying' = {} ELSE UNCHANGED <<undisturbed, relying>>
  /\ UNCHANGED <<command, stage, place, complete, loadable>>

SystemInit == StoreInit /\ LoaderInit

SystemNext == StoreStep \/ \E r \in Loaders : LoaderStep(r)

SystemSpec == SystemInit /\ [][SystemNext]_systemVars /\ StoreFairness

-----------------------------------------------------------------------------
(***************************************************************************)
(* The engines of a loader that was not disturbed come from objects that   *)
(* are still in place, and serve finds them loadable whenever doctor did,  *)
(* whatever setups do before, after and in between, as long as nothing is  *)
(* damaged, no read of the loader fails and none of a setup does.          *)
(***************************************************************************)
EnginesInPlace ==
  \A r \in undisturbed :
    /\ stage[r] = "native" => Artifacts \subseteq vouched
    /\ stage[r] = "ready" => Artifacts \subseteq vouched \cap loadable

DoctorIsRight == \A r \in relying : Assured /\ stage[r] # "unready"

\* The artifacts a loader has passed in the stage it is in.
Passed(r) == {Profile[i] : i \in 1..(place[r] - 1)}

\* Why the engines are in place: what an undisturbed loader passed still is.
PassedStays ==
  /\ \A r \in Loaders : stage[r] = "idle" => place[r] = 1 /\ complete[r]
  /\ \A r \in undisturbed :
       /\ stage[r] = "verify" => Passed(r) \subseteq vouched
       /\ stage[r] = "native" => Passed(r) \subseteq loadable
  /\ \A r \in relying : complete[r]

LoaderInv == LoaderTypeOK /\ EnginesInPlace /\ DoctorIsRight /\ PassedStays
=============================================================================
