-------------------------- MODULE ModelRouterProofs --------------------------
(***************************************************************************)
(* What ModelRouter promises for every set of daemons and tiers, every     *)
(* fallback chain and every cap.  The types need nothing; what it says of  *)
(* money is of daemons that do not overlap (SerialSpec): of two, each      *)
(* writes back a total without the other's charges.                        *)
(***************************************************************************)
EXTENDS ModelRouter, TLAPS

-----------------------------------------------------------------------------
(* Types, however many daemons there are.                                  *)

\* The time-outs are those of local tiers.
TierFits ==
    \A d \in Daemons : call[d].step \in {"local", "again"} => call[d].tier \in Local

Typed == TypeOK /\ TierFits

Calls == [step : Steps, tier : Tiers \union {None}, pinned : BOOLEAN, price : 0..MaxCost]
Windows == [Daemons -> [Local -> {"none", "open", "over"}]]

LEMMA NoCallTyped == NoCall \in Calls /\ NoCall.step = "idle"
  BY MoneyAssumption DEF NoCall, Call, Calls, Steps

LEMMA InitTyped == Init => Typed
<1> SUFFICES ASSUME Init PROVE Typed
  OBVIOUS
<1>1. NoWindow \in [Local -> {"none", "open", "over"}]
  BY DEF NoWindow
<1>2. \A d \in Daemons : call[d] = NoCall
  BY DEF Init
<1> QED BY <1>1, <1>2, NoCallTyped DEF Init, Typed, TypeOK, TierFits, Calls

\* What the call of a daemon may become.
Becomes(next) ==
    /\ next \in Calls
    /\ next.step # "idle" => next.tier \in Tiers
    /\ next.step \in {"local", "again"} => next.tier \in Local

\* One daemon's call changes; money and windows keep their types.
LEMMA CallTyped ==
    ASSUME Typed, NEW d \in Daemons, NEW next, Becomes(next),
           call' = [call EXCEPT ![d] = next],
           total' \in Nat, ledger' \in Nat, spent' \in [Daemons -> Nat], window' \in Windows,
           reason' \in {"none", "failed", "budget_cap", "other"},
           phase' \in [Daemons -> {"off", "boot", "loop", "report"}],
           calls' \in [Daemons -> Nat], runs' \in Nat, outside' \in Nat
    PROVE  Typed'
<1>1. \A e \in Daemons : call'[e] = IF e = d THEN next ELSE call[e]
  BY DEF Typed, TypeOK
<1>2. call' \in [Daemons -> Calls]
  BY DEF Typed, TypeOK, Becomes, Calls
<1>3. \A e \in Daemons : Becomes(call'[e])
  BY <1>1 DEF Becomes, Typed, TypeOK, TierFits, Calls
<1> QED BY <1>2, <1>3 DEF Becomes, Typed, TypeOK, TierFits, Calls, Windows

\* A call that ends, with an answer or not.
LEMMA EndTyped ==
    ASSUME Typed, NEW d \in Daemons, Answered(d) \/ Raises(d),
           total' \in Nat, ledger' \in Nat, spent' \in [Daemons -> Nat], window' \in Windows,
           UNCHANGED seen
    PROVE  Typed'
<1>1. call' = [call EXCEPT ![d] = NoCall]
  BY DEF Answered, Raises
<1>2. /\ reason' \in {"none", "failed", "budget_cap", "other"}
      /\ phase' \in [Daemons -> {"off", "boot", "loop", "report"}]
  BY DEF Answered, Raises, Typed, TypeOK
<1>3. Becomes(NoCall)
  BY NoCallTyped DEF Becomes
<1>4. calls' \in [Daemons -> Nat] /\ runs' \in Nat /\ outside' \in Nat
  BY DEF seen, Typed, TypeOK
<1> QED BY <1>1, <1>2, <1>3, <1>4, CallTyped

\* A call that goes on, on the same tier.
LEMMA StepTyped ==
    ASSUME Typed, NEW d \in Daemons, NEW step \in Steps, Goes(d, step),
           call[d].step # "idle", step \in {"local", "again"} => call[d].tier \in Local,
           UNCHANGED <<db, phase, spent, window, seen>>
    PROVE  Typed'
<1> DEFINE next == [call[d] EXCEPT !.step = step]
<1>1. call[d] \in Calls /\ call[d].tier \in Tiers
  BY DEF Typed, TypeOK, Calls
<1>2. next \in Calls /\ next.step = step /\ next.tier = call[d].tier
  BY <1>1 DEF Calls
<1>3. call' = [call EXCEPT ![d] = next]
  BY DEF Goes, Typed, TypeOK
<1> HIDE DEF next
<1>4. Becomes(next)
  BY <1>1, <1>2 DEF Becomes
<1>5. /\ total' \in Nat /\ ledger' \in Nat /\ spent' \in [Daemons -> Nat] /\ window' \in Windows
      /\ reason' \in {"none", "failed", "budget_cap", "other"}
      /\ phase' \in [Daemons -> {"off", "boot", "loop", "report"}]
      /\ calls' \in [Daemons -> Nat] /\ runs' \in Nat /\ outside' \in Nat
  BY DEF Typed, TypeOK, Windows, db, seen
<1> QED BY <1>3, <1>4, <1>5, CallTyped

\* A call that is rerouted goes to a tier that is there.
LEMMA RerouteTyped ==
    ASSUME Typed, NEW d \in Daemons, Reroutes(d), call[d].tier \in Local,
           Fallback[call[d].tier] # None, window' \in Windows,
           UNCHANGED <<db, phase, spent, seen>>
    PROVE  Typed'
<1> DEFINE next == Call("enter", RerouteTarget(call[d].tier), TRUE, 0)
<1>1. RerouteTarget(call[d].tier) \in Tiers
  BY TiersAssumption DEF RerouteTarget
<1>2. Becomes(next)
  BY <1>1, MoneyAssumption DEF Becomes, Call, Calls, Steps
<1>3. call' = [call EXCEPT ![d] = next]
  BY DEF Reroutes, Typed, TypeOK
<1> HIDE DEF next
<1>4. /\ total' \in Nat /\ ledger' \in Nat /\ spent' \in [Daemons -> Nat]
      /\ reason' \in {"none", "failed", "budget_cap", "other"}
      /\ phase' \in [Daemons -> {"off", "boot", "loop", "report"}]
      /\ calls' \in [Daemons -> Nat] /\ runs' \in Nat /\ outside' \in Nat
  BY DEF Typed, TypeOK, db, seen
<1> QED BY <1>2, <1>3, <1>4, CallTyped

LEMMA InCallTyped ==
    ASSUME Typed, NEW d \in Daemons, InCall(d)
    PROVE  Typed'
<1>0. /\ total \in Nat /\ ledger \in Nat /\ spent \in [Daemons -> Nat] /\ window \in Windows
      /\ call[d] \in Calls
  BY DEF Typed, TypeOK, Windows, Calls
<1>1. CASE Avoids(d)
  BY <1>0, <1>1, RerouteTyped DEF Avoids, Avoided
<1>2. CASE TriesLocal(d)
  BY <1>2, StepTyped DEF TriesLocal, At, Steps
<1>3. CASE TriesCloud(d)
  BY <1>3, StepTyped DEF TriesCloud, At, Steps
<1>4. CASE Refuses(d)
  BY <1>0, <1>4, EndTyped DEF Refuses
<1>5. CASE LocalAnswers(d)
  <2>1. window' \in Windows
    BY <1>0, <1>5 DEF LocalAnswers, Windows
  <2> QED BY <1>0, <1>5, <2>1, EndTyped DEF LocalAnswers
<1>6. CASE LocalTimesOut(d)
  BY <1>6, StepTyped DEF LocalTimesOut, At, Steps, Typed, TierFits
<1>7. CASE AgainAnswers(d)
  BY <1>0, <1>7, EndTyped DEF AgainAnswers
<1>8. CASE AgainTimesOut(d)
  <2>1. window' \in Windows /\ call[d].tier \in Local
    BY <1>0, <1>8 DEF AgainTimesOut, Windows, At, Typed, TierFits
  <2>2. CASE Fallback[call[d].tier] # None
    BY <1>8, <2>1, <2>2, RerouteTyped DEF AgainTimesOut, db
  <2>3. CASE Fallback[call[d].tier] = None
    BY <1>0, <1>8, <2>1, <2>3, EndTyped DEF AgainTimesOut
  <2> QED BY <2>2, <2>3
<1>9. CASE ModelRaises(d)
  BY <1>0, <1>9, EndTyped DEF ModelRaises
<1>10. CASE RateLimited(d)
  BY <1>10, StepTyped DEF RateLimited, At, Steps
<1>11. CASE CloudAnswers(d)
  <2>1. PICK price \in 0..MaxCost :
          call' = [call EXCEPT ![d] = [@ EXCEPT !.step = "charge", !.price = price]]
    BY <1>11 DEF CloudAnswers
  <2> DEFINE next == [call[d] EXCEPT !.step = "charge", !.price = price]
  <2>2. next \in Calls /\ next.step = "charge" /\ next.tier = call[d].tier
    BY <1>0 DEF Calls, Steps
  <2>3. call' = [call EXCEPT ![d] = next]
    BY <2>1 DEF Typed, TypeOK
  <2> HIDE DEF next
  <2>4. Becomes(next)
    BY <1>11, <2>2 DEF Becomes, CloudAnswers, Typed, TypeOK
  <2>5. /\ total' \in Nat /\ ledger' \in Nat /\ spent' \in [Daemons -> Nat] /\ window' \in Windows
        /\ reason' \in {"none", "failed", "budget_cap", "other"}
        /\ phase' \in [Daemons -> {"off", "boot", "loop", "report"}]
        /\ calls' \in [Daemons -> Nat] /\ runs' \in Nat /\ outside' \in Nat
    BY <1>11 DEF CloudAnswers, Typed, TypeOK, Windows, db, seen
  <2> QED BY <2>3, <2>4, <2>5, CallTyped
<1>12. CASE Charges(d)
  <2>1. call[d].price \in Nat /\ spent[d] \in Nat
    BY <1>0, MoneyAssumption DEF Calls
  <2>2. total' \in Nat /\ ledger' \in Nat /\ spent' \in [Daemons -> Nat]
    BY <1>0, <1>12, <2>1 DEF Charges, Charge
  <2> QED BY <1>0, <1>12, <2>2, EndTyped DEF Charges
<1>13. CASE ChargeFails(d)
  BY <1>0, <1>13, EndTyped DEF ChargeFails
<1> QED BY <1>1, <1>2, <1>3, <1>4, <1>5, <1>6, <1>7, <1>8, <1>9, <1>10, <1>11, <1>12, <1>13
        DEF InCall

LEMMA TypesKept == Typed /\ [Next]_vars => Typed'
<1> SUFFICES ASSUME Typed, [Next]_vars PROVE Typed'
  OBVIOUS
<1> USE DEF db, seen
<1>1. ASSUME NEW d \in Daemons, InCall(d) PROVE Typed'
  BY <1>1, InCallTyped
<1>2. ASSUME NEW d \in Daemons, Boot(d) PROVE Typed'
  <2>1. NoWindow \in [Local -> {"none", "open", "over"}]
    BY DEF NoWindow
  <2> QED BY <1>2, <2>1, MoneyAssumption DEF Boot, Rehydrate, Typed, TypeOK, TierFits
<1>3. ASSUME NEW d \in Daemons, Asks(d) PROVE Typed'
  <2>1. PICK t \in Tiers : call' = [call EXCEPT ![d] = Call("enter", t, FALSE, 0)]
    BY <1>3 DEF Asks
  <2>2. Becomes(Call("enter", t, FALSE, 0))
    BY MoneyAssumption DEF Becomes, Call, Calls, Steps
  <2>3. /\ total' \in Nat /\ ledger' \in Nat /\ spent' \in [Daemons -> Nat] /\ window' \in Windows
        /\ reason' \in {"none", "failed", "budget_cap", "other"}
        /\ phase' \in [Daemons -> {"off", "boot", "loop", "report"}]
        /\ calls' \in [Daemons -> Nat] /\ runs' \in Nat /\ outside' \in Nat
    BY <1>3 DEF Asks, Typed, TypeOK, Windows
  <2> QED BY <2>1, <2>2, <2>3, CallTyped
<1>4. ASSUME NEW d \in Daemons, EntersLoop(d) \/ LeavesLoop(d) \/ Ends(d) PROVE Typed'
  BY <1>4 DEF EntersLoop, LeavesLoop, Ends, Typed, TypeOK, TierFits
<1>5. ASSUME NEW d \in Daemons, WindowEnds(d) PROVE Typed'
  BY <1>5 DEF WindowEnds, Typed, TypeOK, TierFits
<1>8. ASSUME NEW d \in Daemons, VlmReads(d) PROVE Typed'
  BY <1>8, MoneyAssumption DEF VlmReads, memory, Typed, TypeOK, TierFits
<1>6. ASSUME NEW d \in Daemons, Crash(d) PROVE Typed'
  <2>1. Becomes(NoCall)
    BY NoCallTyped DEF Becomes
  <2>2. /\ total' \in Nat /\ ledger' \in Nat /\ spent' \in [Daemons -> Nat] /\ window' \in Windows
        /\ reason' \in {"none", "failed", "budget_cap", "other"}
        /\ phase' \in [Daemons -> {"off", "boot", "loop", "report"}]
        /\ calls' \in [Daemons -> Nat] /\ runs' \in Nat /\ outside' \in Nat
    BY <1>6 DEF Crash, Typed, TypeOK, Windows
  <2>3. call' = [call EXCEPT ![d] = NoCall]
    BY <1>6 DEF Crash
  <2> QED BY <2>1, <2>2, <2>3, CallTyped
<1>7. CASE UNCHANGED vars
  BY <1>7 DEF vars, memory, Typed, TypeOK, TierFits
<1> QED BY <1>1, <1>2, <1>3, <1>4, <1>5, <1>6, <1>7, <1>8 DEF Next, Around, Rest

-----------------------------------------------------------------------------
(* Money, of daemons that do not overlap.                                  *)

\* The tracker of a live daemon agrees with the database.
SpentFits == \A d \in Daemons : phase[d] # "off" => spent[d] = total

Priced == {"cloud", "substitute", "charge"}

\* A request that may cost money was let through by precheck, and nothing has
\* been charged since; the dead make none.
RequestFits ==
    \A d \in Daemons :
        /\ call[d].step \in Priced => spent[d] < Cap
        /\ call[d].step # "idle" => phase[d] # "off"

MoneyInv == Typed /\ OneAtATime /\ RunningTotal /\ CapHolds /\ SpentFits /\ RequestFits

LEMMA InitMoney == Init => MoneyInv
  BY InitTyped, NoCallTyped
     DEF Init, MoneyInv, OneAtATime, RunningTotal, CapHolds, SpentFits, RequestFits, Priced

\* A step of one daemon that touches no money.
LEMMA MoneyStays ==
    ASSUME MoneyInv, Typed', OneAtATime', NEW d \in Daemons, UNCHANGED <<total, ledger, spent>>,
           \A e \in Daemons : e # d => call'[e] = call[e] /\ phase'[e] = phase[e],
           phase'[d] # "off" => phase[d] # "off",
           call'[d].step \in Priced => spent[d] < Cap,
           call'[d].step # "idle" => phase'[d] # "off"
    PROVE  MoneyInv'
  BY DEF MoneyInv, RunningTotal, CapHolds, SpentFits, RequestFits

\* Its call ends: with that the boot may end, but no daemon begins.
LEMMA MoneyReturned ==
    ASSUME MoneyInv, Typed', OneAtATime', NEW d \in Daemons, Answered(d) \/ Raises(d),
           UNCHANGED <<total, ledger, spent>>
    PROVE  MoneyInv'
<1>1. call' = [call EXCEPT ![d] = NoCall]
      /\ (UNCHANGED phase \/ phase' = [phase EXCEPT ![d] = "off"])
  BY DEF Answered, Raises
<1>2. /\ \A e \in Daemons : e # d => call'[e] = call[e] /\ phase'[e] = phase[e]
      /\ phase'[d] # "off" => phase[d] # "off"
      /\ call'[d] = NoCall
  BY <1>1 DEF MoneyInv, Typed, TypeOK
<1>3. NoCall.step = "idle" /\ "idle" \notin Priced
  BY NoCallTyped DEF Priced
<1> QED BY <1>2, <1>3, MoneyStays

\* Its call goes on.
LEMMA MoneyAwaited ==
    ASSUME MoneyInv, Typed', OneAtATime', NEW d \in Daemons, NEW next,
           call' = [call EXCEPT ![d] = next], next.step \in Priced => spent[d] < Cap,
           phase[d] # "off", UNCHANGED <<total, ledger, spent, phase>>
    PROVE  MoneyInv'
<1>1. /\ \A e \in Daemons : e # d => call'[e] = call[e] /\ phase'[e] = phase[e]
      /\ call'[d] = next
  BY DEF MoneyInv, Typed, TypeOK
<1> QED BY <1>1, MoneyStays

\* The one daemon there is charges the total it knows, which is that of the rows.
LEMMA MoneyCharged ==
    ASSUME MoneyInv, Typed', OneAtATime', NEW d \in Daemons, Charges(d)
    PROVE  MoneyInv'
<1>1. call[d].price \in 0..MaxCost /\ spent[d] \in Nat /\ ledger \in Nat /\ total \in Nat
  BY DEF MoneyInv, Typed, TypeOK
<1>2. spent[d] < Cap /\ phase[d] # "off"
  BY DEF Charges, At, MoneyInv, RequestFits, Priced
<1>3. spent[d] = total /\ total = ledger
  BY <1>2 DEF MoneyInv, SpentFits, RunningTotal
<1>4. /\ ledger' = ledger + call[d].price
      /\ total' = spent[d] + call[d].price
      /\ spent' = [spent EXCEPT ![d] = spent[d] + call[d].price]
      /\ call' = [call EXCEPT ![d] = NoCall]
      /\ UNCHANGED phase
  BY DEF Charges, Charge, Answered
<1>5. RunningTotal' /\ CapHolds'
  BY <1>1, <1>2, <1>3, <1>4, MoneyAssumption DEF RunningTotal, CapHolds
<1>6. \A e \in Daemons : e # d => phase[e] = "off"
  BY <1>2 DEF MoneyInv, OneAtATime
<1>7. spent'[d] = total'
  BY <1>4 DEF MoneyInv, Typed, TypeOK
<1>8. SpentFits'
  BY <1>4, <1>6, <1>7 DEF SpentFits
<1>9. \A e \in Daemons : call'[e].step = "idle"
  BY <1>4, <1>6, NoCallTyped DEF MoneyInv, RequestFits, Typed, TypeOK
<1>10. RequestFits'
  BY <1>9 DEF RequestFits, Priced
<1> QED BY <1>5, <1>8, <1>10 DEF MoneyInv

LEMMA InCallMoney ==
    ASSUME MoneyInv, Typed', OneAtATime', NEW d \in Daemons, InCall(d)
    PROVE  MoneyInv'
<1> USE DEF db
<1>0. phase[d] # "off" /\ (call[d].step \in Priced => spent[d] < Cap)
  BY DEF InCall, Avoids, TriesLocal, TriesCloud, Refuses, LocalAnswers, LocalTimesOut,
     AgainAnswers, AgainTimesOut, ModelRaises, RateLimited, CloudAnswers, Charges, ChargeFails,
     At, MoneyInv, RequestFits
\* On its way, to a step that precheck has let through if it costs money.
<1>1. ASSUME NEW step, Goes(d, step), step \in Priced => spent[d] < Cap,
             UNCHANGED <<total, ledger, spent, phase>>
      PROVE  MoneyInv'
  <2> DEFINE next == [call[d] EXCEPT !.step = step]
  <2>1. next.step = step /\ call' = [call EXCEPT ![d] = next]
    BY <1>1 DEF Goes, MoneyInv, Typed, TypeOK
  <2> HIDE DEF next
  <2> QED BY <1>0, <1>1, <2>1, MoneyAwaited
<1>2. ASSUME Reroutes(d), UNCHANGED <<total, ledger, spent, phase>> PROVE MoneyInv'
  <2> DEFINE next == Call("enter", RerouteTarget(call[d].tier), TRUE, 0)
  <2>1. next.step \notin Priced /\ call' = [call EXCEPT ![d] = next]
    BY <1>2 DEF Reroutes, Call, Priced, MoneyInv, Typed, TypeOK
  <2> HIDE DEF next
  <2> QED BY <1>0, <1>2, <2>1, MoneyAwaited
<1>3. CASE Avoids(d)
  BY <1>2, <1>3 DEF Avoids
<1>4. CASE TriesLocal(d) \/ LocalTimesOut(d)
  BY <1>1, <1>4 DEF TriesLocal, LocalTimesOut, Priced
<1>5. CASE TriesCloud(d)
  BY <1>1, <1>5 DEF TriesCloud, WithinCap
<1>6. CASE RateLimited(d)
  BY <1>0, <1>1, <1>6 DEF RateLimited, At, Priced
<1>7. CASE Refuses(d) \/ LocalAnswers(d) \/ AgainAnswers(d) \/ ModelRaises(d) \/ ChargeFails(d)
  BY <1>7, MoneyReturned DEF Refuses, LocalAnswers, AgainAnswers, ModelRaises, ChargeFails
<1>8. CASE AgainTimesOut(d)
  BY <1>2, <1>8, MoneyReturned DEF AgainTimesOut
<1>9. CASE CloudAnswers(d)
  <2>1. PICK price \in 0..MaxCost :
          call' = [call EXCEPT ![d] = [@ EXCEPT !.step = "charge", !.price = price]]
    BY <1>9 DEF CloudAnswers
  <2> DEFINE next == [call[d] EXCEPT !.step = "charge", !.price = price]
  <2>2. call' = [call EXCEPT ![d] = next]
    BY <2>1 DEF MoneyInv, Typed, TypeOK
  <2>3. spent[d] < Cap
    BY <1>0, <1>9 DEF CloudAnswers, Priced
  <2> HIDE DEF next
  <2> QED BY <1>0, <1>9, <2>2, <2>3, MoneyAwaited DEF CloudAnswers
<1>10. CASE Charges(d)
  BY <1>10, MoneyCharged
<1> QED BY <1>3, <1>4, <1>5, <1>6, <1>7, <1>8, <1>9, <1>10 DEF InCall

LEMMA SerialMoney == MoneyInv /\ [Next /\ OneAtATime']_vars => MoneyInv'
<1> SUFFICES ASSUME MoneyInv, [Next /\ OneAtATime']_vars PROVE MoneyInv'
  OBVIOUS
<1> USE DEF db, seen
<1>0. Typed'
  BY TypesKept DEF MoneyInv
<1>1. CASE UNCHANGED vars
  BY <1>0, <1>1 DEF vars, memory, MoneyInv, OneAtATime, RunningTotal, CapHolds, SpentFits,
     RequestFits
<1>2. ASSUME OneAtATime', NEW d \in Daemons, InCall(d) PROVE MoneyInv'
  BY <1>0, <1>2, InCallMoney
<1>3. ASSUME OneAtATime', NEW d \in Daemons, Boot(d) PROVE MoneyInv'
  <2>1. /\ phase[d] = "off" /\ phase' = [phase EXCEPT ![d] = "boot"]
        /\ spent' = [spent EXCEPT ![d] = total] /\ UNCHANGED <<total, ledger, call>>
    BY <1>3 DEF Boot, Rehydrate
  <2>2. /\ call[d].step = "idle" /\ spent'[d] = total /\ phase'[d] = "boot"
        /\ \A e \in Daemons : e # d => spent'[e] = spent[e] /\ phase'[e] = phase[e]
    BY <2>1 DEF MoneyInv, RequestFits, Typed, TypeOK
  <2> QED BY <1>0, <1>3, <2>1, <2>2
      DEF MoneyInv, RunningTotal, CapHolds, SpentFits, RequestFits, Priced
<1>4. ASSUME OneAtATime', NEW d \in Daemons, Asks(d) PROVE MoneyInv'
  <2>1. PICK t \in Tiers : call' = [call EXCEPT ![d] = Call("enter", t, FALSE, 0)]
    BY <1>4 DEF Asks
  <2>2. Call("enter", t, FALSE, 0).step \notin Priced
    BY DEF Call, Priced
  <2> QED BY <1>0, <1>4, <2>1, <2>2, MoneyAwaited DEF Asks
<1>5. ASSUME OneAtATime', NEW d \in Daemons,
             \/ EntersLoop(d) \/ LeavesLoop(d) \/ Ends(d)
             \/ WindowEnds(d) \/ VlmReads(d)
      PROVE  MoneyInv'
  <2>1. /\ UNCHANGED <<total, ledger, spent, call>> /\ phase[d] # "off"
        /\ \A e \in Daemons : e # d => phase'[e] = phase[e]
        /\ call[d].step # "idle" => phase'[d] # "off"
    BY <1>5 DEF EntersLoop, LeavesLoop, Ends, WindowEnds, VlmReads, memory, At, MoneyInv,
         Typed, TypeOK
  <2> QED BY <1>0, <1>5, <2>1, MoneyStays DEF MoneyInv, RequestFits
<1>6. ASSUME OneAtATime', NEW d \in Daemons, Crash(d) PROVE MoneyInv'
  <2>1. /\ UNCHANGED <<total, ledger, spent>> /\ phase[d] # "off"
        /\ \A e \in Daemons : e # d => call'[e] = call[e] /\ phase'[e] = phase[e]
        /\ call'[d] = NoCall
    BY <1>6 DEF Crash, MoneyInv, Typed, TypeOK
  <2> QED BY <1>0, <1>6, <2>1, NoCallTyped, MoneyStays DEF Priced
<1> QED BY <1>1, <1>2, <1>3, <1>4, <1>5, <1>6 DEF Next, Around, Rest

LEMMA MoneyInvariant == SerialSpec => []MoneyInv
  BY InitMoney, SerialMoney, PTL DEF SerialSpec

\* The running total a restart goes by never drifts from the rows of llm_calls,
\* whichever daemon wrote them.
THEOREM NoDrift == SerialSpec => []RunningTotal
<1>1. MoneyInv => RunningTotal
  BY DEF MoneyInv
<1> QED BY <1>1, MoneyInvariant, PTL

\* The spend in the job's rows passes its cap by less than the price of one call,
\* over all the daemons that ever work on it.
THEOREM Capped == SerialSpec => []CapHolds
<1>1. MoneyInv => CapHolds
  BY DEF MoneyInv
<1> QED BY <1>1, MoneyInvariant, PTL

\* Every variable of the router keeps its type, for any tiers and fallback chain and
\* any number of daemons at once: no call is rerouted to a tier that is not there.
THEOREM RouterTyped == Spec => []TypeOK
<1>1. Typed => TypeOK
  BY DEF Typed
<1> QED BY <1>1, InitTyped, TypesKept, PTL DEF Spec
=============================================================================
