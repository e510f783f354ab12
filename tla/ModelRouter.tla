----------------------------- MODULE ModelRouter -----------------------------
(***************************************************************************)
(* The calls a job's daemon makes to language models, and what it does     *)
(* about their price: Router.call (llm/router.py) with its time-outs,      *)
(* degraded windows, reroutes and rate-limit fallback, BudgetTracker       *)
(* (llm/budgets.py) with its cap, and where the BudgetExceeded it raises   *)
(* goes (loop.py, synth.py, critique.py, daemon.py); and the two readers   *)
(* of scans (tools/pdf.py, tools/ocr.py) that ask a cloud model without    *)
(* either of them.                                                         *)
(*                                                                         *)
(* A daemon makes one call at a time.  A step is what runs between two     *)
(* awaits, or one transaction.  The backoff inside one cloud attempt (5xx, *)
(* 429, network: tenacity) has no state and shows only its last outcome.   *)
(* No production Router is given a cache, so it has none here.             *)
(***************************************************************************)
EXTENDS Integers, FiniteSets

CONSTANTS
    Daemons,         \* processes that may work on the job
    Local, Cloud,    \* tiers served by LM Studio, and by OpenRouter
    Fallback,        \* fallback_tier of each local tier, or None
    Substituted,     \* cloud tiers with a fallback_model
    None,
    Cap,             \* budget_cap_usd, in units of money
    MaxCost,         \* bound: price of one call
    MaxCalls,        \* bound: calls of one process
    MaxRuns,         \* bound: processes started
    MaxOutside      \* bound: money spent past the Router

Tiers == Local \union Cloud

ASSUME TiersAssumption ==
    /\ Local \intersect Cloud = {} /\ None \notin Tiers
    /\ Fallback \in [Local -> Tiers \union {None}]
    /\ Substituted \subseteq Cloud

ASSUME MoneyAssumption ==
    Cap \in Nat /\ MaxCost \in Nat /\ MaxCalls \in Nat /\ MaxRuns \in Nat
    /\ MaxOutside \in Nat

VARIABLES
    \* what survives a process: the database
    total,      \* jobs.cost_so_far_usd
    ledger,     \* the sum of llm_calls.cost_usd over the job's rows
    reason,     \* how the job last ended
    \* what dies with it
    phase,      \* where each daemon is in run_daemon
    call,       \* its Router.call: [step, tier, pinned, price]
    spent,      \* BudgetTracker.spent
    window,     \* _tier_degraded_until of each local tier
    \* what no code keeps: bounds, and a bill
    calls, runs,
    outside     \* what OpenRouter bills for requests that passed the Router by

db     == <<total, ledger, reason>>
memory == <<phase, call, spent, window>>
seen   == <<calls, runs, outside>>
vars   == <<db, memory, seen>>

-----------------------------------------------------------------------------
\* `pinned`: the call was rerouted, and carries the model of the tier it was
\* rerouted to as a keyword argument of agent.run.
Call(step, tier, pinned, price) == [step |-> step, tier |-> tier, pinned |-> pinned, price |-> price]
NoCall == Call("idle", None, FALSE, 0)

Steps == {"idle", "enter", "local", "again", "cloud", "substitute", "charge"}

TypeOK ==
    /\ total \in Nat /\ ledger \in Nat /\ outside \in Nat
    /\ reason \in {"none", "failed", "budget_cap", "other"}
    /\ phase \in [Daemons -> {"off", "boot", "loop", "report"}]
    /\ call \in [Daemons -> [step : Steps, tier : Tiers \union {None}, pinned : BOOLEAN,
                             price : 0..MaxCost]]
    /\ \A d \in Daemons : call[d].step # "idle" => call[d].tier \in Tiers
    /\ spent \in [Daemons -> Nat]
    /\ window \in [Daemons -> [Local -> {"none", "open", "over"}]]
    /\ calls \in [Daemons -> Nat] /\ runs \in Nat

NoWindow == [t \in Local |-> "none"]

Init ==
    /\ total = 0 /\ ledger = 0 /\ outside = 0 /\ reason = "none"
    /\ phase = [d \in Daemons |-> "off"] /\ call = [d \in Daemons |-> NoCall]
    /\ spent = [d \in Daemons |-> 0] /\ window = [d \in Daemons |-> NoWindow]
    /\ calls = [d \in Daemons |-> 0] /\ runs = 0

At(d, step) == call[d].step = step
Goes(d, step) == call' = [call EXCEPT ![d] = [@ EXCEPT !.step = step]]

-----------------------------------------------------------------------------
(* The daemon around its calls.                                            *)

RehydrateFromZero(d) == spent' = [spent EXCEPT ![d] = 0]    \* mutant: _load_from_db forgotten
Rehydrate(d) == spent' = [spent EXCEPT ![d] = total]

\* _build_router: a new tracker and a new Router, which knows of no window.
Boot(d) ==
    /\ phase[d] = "off" /\ runs < MaxRuns /\ runs' = runs + 1
    /\ phase' = [phase EXCEPT ![d] = "boot"]
    /\ Rehydrate(d)
    /\ window' = [window EXCEPT ![d] = NoWindow]
    /\ calls' = [calls EXCEPT ![d] = 0]
    /\ UNCHANGED <<db, call, outside>>

\* The planner, a task, a heuristic or a report asks a tier for an answer.
Asks(d) ==
    /\ phase[d] # "off" /\ At(d, "idle") /\ calls[d] < MaxCalls
    /\ \E t \in Tiers : call' = [call EXCEPT ![d] = Call("enter", t, FALSE, 0)]
    /\ calls' = [calls EXCEPT ![d] = @ + 1]
    /\ UNCHANGED <<db, phase, spent, window, runs, outside>>

EntersLoop(d) ==
    /\ phase[d] = "boot" /\ At(d, "idle")
    /\ phase' = [phase EXCEPT ![d] = "loop"]
    /\ UNCHANGED <<db, call, spent, window, seen>>

LeavesLoop(d) ==
    /\ phase[d] = "loop" /\ At(d, "idle")
    /\ phase' = [phase EXCEPT ![d] = "report"]
    /\ UNCHANGED <<db, call, spent, window, seen>>

\* run_loop lets no BudgetExceeded out, so run_daemon names some other reason.
Ends(d) ==
    /\ phase[d] = "report" /\ At(d, "idle")
    /\ phase' = [phase EXCEPT ![d] = "off"] /\ reason' = "other"
    /\ UNCHANGED <<total, ledger, call, spent, window, seen>>

\* The answer reaches the caller.
Answered(d) == call' = [call EXCEPT ![d] = NoCall] /\ UNCHANGED <<reason, phase>>

\* An exception does.  It ends the boot if the first plan was being made; the
\* resume replan, a task, a heuristic, a replan and a report go on without.
Raises(d) ==
    /\ call' = [call EXCEPT ![d] = NoCall]
    /\ \/ UNCHANGED <<reason, phase>>
       \/ phase[d] = "boot" /\ phase' = [phase EXCEPT ![d] = "off"] /\ reason' = "failed"

-----------------------------------------------------------------------------
(* Router.call.                                                            *)

RerouteToItself(t) == t          \* mutant: the original tier is called again
RerouteTarget(t) == Fallback[t]

\* _reroute_to_fallback_tier re-enters call with the other tier's model pinned.
Reroutes(d) ==
    call' = [call EXCEPT ![d] = Call("enter", RerouteTarget(@.tier), TRUE, 0)]

AvoidedAlways(d) ==               \* mutant: a tier without fallback_tier is rerouted too
    LET t == call[d].tier IN t \in Local /\ window[d][t] = "open"
Avoided(d) ==
    LET t == call[d].tier IN t \in Local /\ window[d][t] = "open" /\ Fallback[t] # None

\* Within its degraded window a local tier is not tried.
Avoids(d) ==
    /\ At(d, "enter") /\ Avoided(d)
    /\ Reroutes(d)
    /\ UNCHANGED <<db, phase, spent, window, seen>>

TriesLocal(d) ==
    /\ At(d, "enter") /\ call[d].tier \in Local /\ ~Avoided(d)
    /\ Goes(d, "local")
    /\ UNCHANGED <<db, phase, spent, window, seen>>

WithinCapLoose(d) == spent[d] <= Cap       \* mutant: > for >=
WithinCap(d) == spent[d] < Cap

\* precheck, then the request.
TriesCloud(d) ==
    /\ At(d, "enter") /\ call[d].tier \in Cloud /\ WithinCap(d)
    /\ Goes(d, "cloud")
    /\ UNCHANGED <<db, phase, spent, window, seen>>

\* precheck raises BudgetExceeded.
Refuses(d) ==
    /\ At(d, "enter") /\ call[d].tier \in Cloud /\ ~WithinCap(d)
    /\ Raises(d)
    /\ UNCHANGED <<total, ledger, spent, window, seen>>

\* The row of a local call costs nothing.  An expired window is forgotten.
LocalAnswers(d) ==
    /\ At(d, "local")
    /\ window' = [window EXCEPT ![d][call[d].tier] = IF @ = "over" THEN "none" ELSE @]
    /\ Answered(d)
    /\ UNCHANGED <<total, ledger, spent, seen>>

\* TimeoutError: LMSTUDIO_RETRY_SLEEP_S, then once more.
LocalTimesOut(d) ==
    /\ At(d, "local")
    /\ Goes(d, "again")
    /\ UNCHANGED <<db, phase, spent, window, seen>>

\* This path does not look at the window.
AgainAnswers(d) ==
    /\ At(d, "again")
    /\ Answered(d)
    /\ UNCHANGED <<total, ledger, spent, window, seen>>

AgainTimesOut(d) ==
    /\ At(d, "again")
    /\ window' = [window EXCEPT ![d][call[d].tier] = "open"]
    /\ IF Fallback[call[d].tier] # None
       THEN Reroutes(d) /\ UNCHANGED <<reason, phase>>
       ELSE Raises(d)
    /\ UNCHANGED <<total, ledger, spent, seen>>

\* Any other error of a model, RateLimitError of a local one included.
ModelRaises(d) ==
    /\ call[d].step \in {"local", "again", "cloud", "substitute"}
    /\ Raises(d)
    /\ UNCHANGED <<total, ledger, spent, window, seen>>

RateLimited(d) ==
    /\ At(d, "cloud") /\ call[d].tier \in Substituted
    /\ Goes(d, "substitute")
    /\ UNCHANGED <<db, phase, spent, window, seen>>

CloudAnswers(d) ==
    /\ call[d].step \in {"cloud", "substitute"}
    /\ \E price \in 0..MaxCost :
         call' = [call EXCEPT ![d] = [@ EXCEPT !.step = "charge", !.price = price]]
    /\ UNCHANGED <<db, phase, spent, window, seen>>

\* charge: the row and the running total in one transaction.
Charge(d) ==
    /\ ledger' = ledger + call[d].price
    /\ total' = spent[d] + call[d].price
    /\ spent' = [spent EXCEPT ![d] = @ + call[d].price]

Charges(d) ==
    /\ At(d, "charge")
    /\ Charge(d)
    /\ Answered(d)
    /\ UNCHANGED <<window, seen>>

\* The transaction fails: the answer is lost and its price is in no row.
ChargeFails(d) ==
    /\ At(d, "charge")
    /\ Raises(d)
    /\ UNCHANGED <<total, ledger, spent, window, seen>>

-----------------------------------------------------------------------------
\* The _run_vlm_call of pdf.py and of ocr.py: a scan no cheaper layer can read, met
\* while the corpus is indexed, a page fetched or an inbox file taken in, is shown
\* to the frontier model by a client of their own: no precheck, no charge, no row.
VlmReads(d) ==
    /\ phase[d] # "off"
    /\ \E price \in 1..MaxCost :
        outside + price <= MaxOutside /\ outside' = outside + price
    /\ UNCHANGED <<db, memory, calls, runs>>

\* LMSTUDIO_DEGRADED_WINDOW_S have passed.
WindowEnds(d) ==
    /\ phase[d] # "off"
    /\ \E t \in Local :
        window[d][t] = "open" /\ window' = [window EXCEPT ![d][t] = "over"]
    /\ UNCHANGED <<db, phase, call, spent, seen>>

Crash(d) ==
    /\ phase[d] # "off"
    /\ phase' = [phase EXCEPT ![d] = "off"] /\ call' = [call EXCEPT ![d] = NoCall]
    /\ UNCHANGED <<db, spent, window, seen>>

\* Nobody starts the job any more.
Rest == runs = MaxRuns /\ (\A d \in Daemons : phase[d] = "off") /\ UNCHANGED vars

InCall(d) ==
    \/ Avoids(d) \/ TriesLocal(d) \/ TriesCloud(d) \/ Refuses(d)
    \/ LocalAnswers(d) \/ LocalTimesOut(d) \/ AgainAnswers(d) \/ AgainTimesOut(d)
    \/ ModelRaises(d) \/ RateLimited(d) \/ CloudAnswers(d) \/ Charges(d) \/ ChargeFails(d)

Around(d) == Boot(d) \/ Asks(d) \/ EntersLoop(d) \/ LeavesLoop(d) \/ Ends(d)

Next ==
    \/ \E d \in Daemons : InCall(d) \/ Around(d) \/ VlmReads(d) \/ WindowEnds(d) \/ Crash(d)
    \/ Rest

Spec == Init /\ [][Next]_vars

\* One daemon works on the job at a time; DaemonControl has who sees to it, and when
\* nobody does.
OneAtATime == \A d, e \in Daemons : phase[d] # "off" /\ phase[e] # "off" => d = e

SerialSpec == Init /\ [][Next /\ OneAtATime']_vars

\* Every request ends: asyncio.wait_for and the stop delay of the backoff.
FairSpec == SerialSpec /\ \A d \in Daemons : WF_vars(InCall(d))

-----------------------------------------------------------------------------
(* Safety.                                                                 *)

\* The total a restarted daemon goes by is the sum of the rows, whatever was
\* crashed, rerouted, rate-limited or refused (BudgetTracker.charge, _load_from_db).
\* It holds under SerialSpec only: of two, each writes back a total without the other's.
RunningTotal == total = ledger

\* The spend the job's rows know of passes the cap by less than one call, over all
\* its daemons: no path through the Router goes round precheck (not a reroute, not
\* the rate-limit fallback), and no restart forgets.  What VlmReads spends is not in
\* it: that money is nowhere in the job's rows, and no cap bounds it.
CapHolds == ledger = 0 \/ ledger < Cap + MaxCost

(* Liveness, under FairSpec.                                               *)

\* A call comes back: time-outs, reroutes along the fallback chain and the
\* rate-limit fallback do not go round in circles.
CallEnds == \A d \in Daemons : ~At(d, "idle") ~> At(d, "idle")
=============================================================================
