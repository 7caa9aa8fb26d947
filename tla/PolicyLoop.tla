----------------------------- MODULE PolicyLoop -----------------------------
(***************************************************************************)
(* What the health check decides from: checkPolicyUpdate() and             *)
(* loadPolicies() against an operator who edits the file meanwhile, the    *)
(* loads in StateStore while agents come and go, and the policy loop that  *)
(* turns both into overload_mode_.                                         *)
(*                                                                         *)
(* The file's contents are a sequence of policies as written, or Broken    *)
(* (a value of the wrong type, or no JSON: an exception loadPolicies       *)
(* catches), Incomplete (a policy lacks a field: operator[] of a const     *)
(* json asserts and the process ends; no build of the repository sets      *)
(* NDEBUG), or Missing.  Reading the contents and reading the time are two *)
(* steps of the program; edits fall in between.                            *)
(***************************************************************************)
EXTENDS Integers, SequencesExt

CONSTANTS
    Agents,
    Loads,         \* loads agents report, integers
    Contents,      \* contents that parse, sequences of policies
    Broken, Incomplete, Missing,
    MaxTime        \* bound: time stamps files get

ASSUME LoopAssumption ==
    /\ Loads \subseteq Nat
    /\ MaxTime \in Nat \ {0}
    /\ {Broken, Incomplete, Missing} \intersect Contents = {}
    /\ Incomplete \notin {Broken, Missing}

VARIABLES
    file,           \* contents and time stamp of configs/policy.json
    policies,       \* policies_
    last_time,      \* last_policy_file_time_
    step,           \* where the health check is; "ended" with the process
    new_policies,   \* what loadPolicies() has parsed
    states,         \* StateStore::states_, the loads in it
    registered,     \* agents in sessions_
    overload_mode,  \* overload_mode_
    missed,         \* history: whether the last edit can go unnoticed
    loaded          \* history: the last contents that parsed, Missing before the first

fileVars  == <<file, missed>>
loadVars  == <<policies, last_time, new_policies, loaded>>
storeVars == <<states, registered>>
vars == <<fileVars, loadVars, storeVars, step, overload_mode>>

\* The file clock's epoch, which a default-constructed file_time_type holds: libstdc++
\* puts it in 2174, after every time stamp a file has today.
Epoch == MaxTime + 1

Parses(c) == c \notin {Broken, Incomplete, Missing}

\* What parsing yields.  action.command is assigned for one text only; for any other it
\* stays uninitialised and may compare equal to CMD_SET_MODE or not.
Meanings(c) ==
    {[i \in DOMAIN c |->
        [c[i] EXCEPT !.command = IF c[i].text = "CMD_SET_MODE" THEN "CMD_SET_MODE" ELSE left[i]]] :
     left \in [DOMAIN c -> {"CMD_SET_MODE", "other"}]}

\* The constructor has loaded the file, or failed to; it did not end the process.
Init ==
    /\ file \in [contents : Contents \union {Broken, Missing}, time : {1}]
    /\ IF Parses(file.contents)
       THEN policies \in Meanings(file.contents) /\ last_time = file.time /\ loaded = file.contents
       ELSE policies = <<>> /\ last_time = Epoch /\ loaded = Missing
    /\ step = "wait"
    /\ new_policies = <<>>
    /\ states = [a \in {} |-> 0]
    /\ registered = {}
    /\ overload_mode = FALSE
    /\ missed = FALSE

-----------------------------------------------------------------------------
(* The operator and the agents.                                             *)

\* The file is edited, replaced or removed; a replacement may carry an old time stamp.
Edit(c, t) ==
    /\ t \in {file.time - 1, file.time, file.time + 1} \intersect 1..MaxTime
    /\ file' = [contents |-> c, time |-> t]
    /\ missed' = (t <= last_time \/ step = "stamp")
    /\ UNCHANGED <<loadVars, storeVars, step, overload_mode>>

\* onMessage(HELLO).
Join(a) ==
    /\ step # "ended"
    /\ registered' = registered \union {a}
    /\ UNCHANGED <<fileVars, loadVars, states, step, overload_mode>>

\* Any way a session leaves sessions_; none of them touches the store.
Leave(a) ==
    /\ step # "ended"
    /\ registered' = registered \ {a}
    /\ UNCHANGED <<fileVars, loadVars, states, step, overload_mode>>

\* onMessage(STATE) and updateAgentState().
UpdateAgentState(a, load) ==
    /\ step # "ended"
    /\ a \in registered
    /\ states' = [b \in DOMAIN states \union {a} |-> IF b = a THEN load ELSE states[b]]
    /\ UNCHANGED <<fileVars, loadVars, registered, step, overload_mode>>

-----------------------------------------------------------------------------
(* The health check.                                                        *)

NewerIfNothingLoaded == file.time > last_time /\ policies = <<>>

Newer == file.time > last_time

\* checkPolicyUpdate(): is the file there, and newer than what was loaded?
CheckPolicyUpdate ==
    /\ step = "wait"
    /\ step' = IF file.contents # Missing /\ Newer THEN "read" ELSE "decide"
    /\ UNCHANGED <<fileVars, loadVars, storeVars, overload_mode>>

\* loadPolicies(), up to the end of parsing: what throws changes nothing.
Read ==
    /\ step = "read"
    /\ \/ /\ Parses(file.contents)
          /\ new_policies' \in Meanings(file.contents)
          /\ step' = "stamp"
          /\ loaded' = file.contents
       \/ /\ ~Parses(file.contents)
          /\ step' = IF file.contents = Incomplete THEN "ended" ELSE "decide"
          /\ UNCHANGED <<new_policies, loaded>>
    /\ UNCHANGED <<fileVars, policies, last_time, storeVars, overload_mode>>

AdoptedBehindOld == policies \o new_policies

\* policies_ = std::move(new_policies).
Adopted == new_policies

\* What last_write_time leaves in last_policy_file_time_; on a missing file it throws.
WriteTime == IF file.contents # Missing THEN file.time ELSE last_time

\* Its end: the policies change, then the time is read.
Stamp ==
    /\ step = "stamp"
    /\ policies' = Adopted
    /\ last_time' = WriteTime
    /\ new_policies' = <<>>
    /\ step' = "decide"
    /\ UNCHANGED <<fileVars, loaded, storeVars, overload_mode>>

\* getAggregateLoad() compared with a threshold: the mean of all of states_, 0 if empty,
\* without the division.
ConditionMet(p) ==
    LET total == SumFunction(states)
        bar   == p.threshold * (IF states = <<>> THEN 1 ELSE Cardinality(DOMAIN states))
    IN  (p.op = ">" /\ total > bar) \/ (p.op = "<" /\ total < bar)

AfterPolicyUpwards(mode, p) ==
    IF ConditionMet(p) /\ p.command = "CMD_SET_MODE" THEN mode \/ p.mode = 1 ELSE mode

\* One turn of the policy loop; already_in_mode leaves the mode as it is as well.
AfterPolicy(mode, p) ==
    IF ConditionMet(p) /\ p.command = "CMD_SET_MODE" THEN p.mode = 1 ELSE mode

\* The loop over policies_, and the wait for the next health check.
Decide ==
    /\ step = "decide"
    /\ overload_mode' = FoldLeft(AfterPolicy, overload_mode, policies)
    /\ step' = "wait"
    /\ UNCHANGED <<fileVars, loadVars, storeVars>>

HealthCheck == CheckPolicyUpdate \/ Read \/ Stamp \/ Decide

Next ==
    \/ \E c \in Contents \union {Broken, Incomplete, Missing}, t \in 1..MaxTime : Edit(c, t)
    \/ \E a \in Agents :
          Join(a) \/ Leave(a) \/ \E load \in Loads : UpdateAgentState(a, load)
    \/ CheckPolicyUpdate \/ Read \/ Stamp \/ Decide

Spec == Init /\ [][Next]_vars

\* The timer fires and the handler runs; operator and agents do as they please.
FairSpec == Spec /\ WF_vars(HealthCheck)

-----------------------------------------------------------------------------
(* Properties.                                                              *)

\* The policies are those of the last file that parsed, all of them and no others, from
\* the first such file on: a file that is broken, changes or disappears while it is
\* loaded costs the controller none of the policies it has (loadPolicies collects what it
\* reads in new_policies and assigns policies_ at its end).
KeepsPolicies ==
    IF Parses(loaded)
    THEN step # "stamp" => policies \in Meanings(loaded)
    ELSE policies = <<>> /\ last_time = Epoch

Current(c, t) == file = [contents |-> c, time |-> t]

\* A valid file that stays is loaded, however often the file was broken, missing or
\* edited before, unless its last edit carried a time stamp not newer than last_time or
\* fell between the reading of contents and time, or the process ended before.
UnmissedFileIsLoaded ==
    \A c \in Contents, t \in 1..MaxTime :
        (Current(c, t) /\ ~missed)
            ~> (policies \in Meanings(c) \/ ~Current(c, t) \/ missed \/ step = "ended")

\* Every policy that acts now asks for mode m.
AllWant(m) ==
    LET acting == {p \in Range(policies) : p.command = "CMD_SET_MODE" /\ ConditionMet(p)}
    IN  acting # {} /\ \A p \in acting : (p.mode = 1) = m

\* When the loads stay where the policies agree on a mode, the system settles in it,
\* unless the process ends.
SettlesInMode ==
    \A m \in BOOLEAN : <>[]AllWant(m) => <>[](overload_mode = m) \/ <>(step = "ended")
=============================================================================
