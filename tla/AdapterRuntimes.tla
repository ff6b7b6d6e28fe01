-------------------------- MODULE AdapterRuntimes --------------------------
(* A run of the local runtime, which is started with the CodeBuddy adapter  *)
(* or with the reference adapter: one of the two plays the run and the      *)
(* supervisor is promised the same of both.                                 *)
EXTENDS CodeBuddyRuntime

CONSTANTS RunRequest, Chunks

ASSUME ChunksAssumption == Chunks \in Nat

VARIABLES adapterMode, scenario, managed, place, taken, released, verdict, retired

Reference == INSTANCE ReferenceRuntime

reference == <<scenario, managed, place, taken, released, verdict, retired>>
codeBuddy == vars
all == <<adapterMode, codeBuddy, reference>>

AllTypeOK == adapterMode \in {"codebuddy", "reference"} /\ TypeOK /\ Reference!TypeOK

\* The scenario is the constructor's option; without one it is "text".
AllInit ==
  /\ adapterMode \in {"codebuddy", "reference"} /\ Init /\ Reference!Init
  /\ adapterMode = "codebuddy" => scenario = "text"

CodeBuddyNext == adapterMode = "codebuddy" /\ Next /\ UNCHANGED <<adapterMode, reference>>
ReferenceNext == adapterMode = "reference" /\ Reference!Next /\ UNCHANGED <<adapterMode, codeBuddy>>

AllNext == CodeBuddyNext \/ ReferenceNext

AllSpec == AllInit /\ [][AllNext]_all

AllFairSpec == AllSpec /\ Fairness /\ Reference!Fairness

-----------------------------------------------------------------------------
(* Properties.                                                             *)

\* The supervisor is handed a stream in the order that the protocol promises,
\* whichever adapter plays the run: the reference adapter keeps that order by
\* itself, of the CodeBuddy adapter the managed run stops what breaks it (#iterate).
RunStreamsAreImplemented == ImplementsRunStream /\ Reference!ImplementsRunStream

\* Runs end: one of the CodeBuddy adapter once it has begun, whatever the vendor
\* does, because the deadline of the run does not wait for clients; one of the
\* reference adapter once its wait has been ended (createWatchdog, #run).
RunsEnd == generator # "idle" \/ Reference!NothingToWaitFor ~> generator = "done" \/ place = "done"
=============================================================================
