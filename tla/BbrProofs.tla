----------------------------- MODULE BbrProofs -----------------------------
(***************************************************************************)
(* Proofs about Bbr for all sizes, round trip times, intervals and numbers *)
(* of rounds: types, the order of the estimates and of the modes.          *)
(***************************************************************************)
EXTENDS Bbr, TLAPS

\* Each is inductive with the other: the estimates are numbers, and their
\* order needs the types.
BbrInv == TypeOK /\ EstimatesOrdered

----------------------------------------------------------------------------
\* Arithmetic

LEMMA Remainder ==
    ASSUME NEW n \in Int, NEW w \in Nat \ {0} PROVE n % w \in 0..w - 1
  OBVIOUS

LEMMA Quotient ==
    ASSUME NEW n \in Int, NEW d \in Nat \ {0}
    PROVE  n \div d \in Int /\ (n >= 0 => n \div d \in Nat)
  OBVIOUS

LEMMA BandwidthNat ==
    ASSUME NEW rtt \in Rtts PROVE Bandwidth(rtt) \in Nat
<1> USE BbrAssumption
<1>1. CASE rtt = 0
  BY <1>1 DEF Bandwidth
<1>2. CASE rtt # 0
  <2>1. rtt \in Nat \ {0} /\ Len \in Int /\ Len >= 0
    BY <1>2
  <2>2. Len \div rtt \in Nat
    BY <2>1, Quotient
  <2> QED
    BY <1>2, <2>2 DEF Bandwidth
<1> QED
  BY <1>1, <1>2

\* What is known of the numbers of a state.
LEMMA Numbers ==
    ASSUME TypeOK
    PROVE  /\ minimum_rtt \in Int /\ (minimum_rtt # Never => minimum_rtt \in Nat)
           /\ rt_prop \in Int /\ maximum \in Nat /\ bottleneck \in Nat
           /\ rtts \in Nat /\ age \in Nat /\ data \in Nat /\ phase \in Nat
  BY BbrAssumption DEF TypeOK, Never

----------------------------------------------------------------------------
\* The initial state

LEMMA BbrInit == Init => BbrInv
<1> SUFFICES ASSUME Init PROVE BbrInv
  OBVIOUS
<1> USE BbrAssumption DEF Init
<1>1. window \in 0..Wrap16 - 1
  BY Remainder
<1>2. TypeOK
  BY <1>1 DEF TypeOK, Modes, Gains, Never
<1>3. EstimatesOrdered
  BY DEF EstimatesOrdered, FirstSample, Never
<1> QED
  BY <1>2, <1>3 DEF BbrInv

----------------------------------------------------------------------------
\* Samples

LEMMA Sampled ==
    ASSUME BbrInv, NEW rtt \in Rtts, NEW counted \in BOOLEAN,
           SampleRtt(rtt), SampleBandwidth(rtt, counted)
    PROVE  /\ minimum_rtt' \in Rtts
           /\ rt_prop' \in Rtts \cup {Never, InitialRtt} /\ rt_prop' \in Int
           /\ maximum' \in Nat /\ bottleneck' \in Nat /\ rtts' \in 0..RttWrap - 1
           /\ EstimatesOrdered'
<1> USE BbrAssumption
<1>1. TypeOK /\ EstimatesOrdered
  BY DEF BbrInv
<1>2. rtt \in Nat
  OBVIOUS
<1>3. /\ minimum_rtt' \in Rtts /\ minimum_rtt' # Never
      /\ rt_prop' \in Rtts \cup {Never, InitialRtt} /\ rt_prop' \in Int
      /\ minimum_rtt' <= rt_prop'
  <2>1. CASE FirstSample
    BY <2>1, <1>2 DEF SampleRtt, Never
  <2>2. CASE ~FirstSample
    BY <2>2, <1>1, <1>2, Numbers DEF SampleRtt, FirstSample, Never, TypeOK, EstimatesOrdered
  <2> QED
    BY <2>1, <2>2
<1>4. (rtts + 1) % RttWrap \in 0..RttWrap - 1
  <2>1. rtts + 1 \in Int
    BY <1>1, Numbers
  <2> QED
    BY <2>1, Remainder
<1>5. /\ maximum' \in Nat /\ bottleneck' \in Nat /\ rtts' \in 0..RttWrap - 1
      /\ bottleneck' <= maximum'
  <2>1. CASE FirstSample
    BY <2>1, <1>4, BandwidthNat DEF SampleBandwidth
  <2>2. CASE ~FirstSample /\ counted
    <3>1. bottleneck <= maximum /\ maximum \in Nat /\ bottleneck \in Nat
      BY <2>2, <1>1, Numbers DEF EstimatesOrdered
    <3>2. maximum' = Larger(maximum, Bandwidth(rtt)) /\ Bandwidth(rtt) \in Nat
      BY <2>2, BandwidthNat DEF SampleBandwidth
    <3>3. maximum' \in Nat /\ bottleneck <= maximum'
      BY <3>1, <3>2 DEF Larger
    <3>4. bottleneck' \in {bottleneck, Larger(bottleneck, maximum')}
      BY <2>2 DEF SampleBandwidth
    <3>5. rtts' \in 0..RttWrap - 1
      BY <2>2, <1>4 DEF SampleBandwidth
    <3> QED
      BY <3>1, <3>3, <3>4, <3>5 DEF Larger
  <2>3. CASE ~FirstSample /\ ~counted
    BY <2>3, <1>1 DEF SampleBandwidth, TypeOK, EstimatesOrdered
  <2> QED
    BY <2>1, <2>2, <2>3
<1>6. EstimatesOrdered'
  BY <1>3, <1>5 DEF EstimatesOrdered, FirstSample
<1> QED
  BY <1>3, <1>5, <1>6

----------------------------------------------------------------------------
\* Modes

LEMMA WindowSet ==
    ASSUME NEW cwnd \in Int, SetWindow(cwnd) PROVE window' \in 0..Wrap16 - 1
  BY BbrAssumption, Remainder DEF SetWindow

LEMMA StartupInt ==
    ASSUME NEW x \in Int PROVE Startup(x) \in Int
  BY Quotient DEF Startup

LEMMA NextPhaseType ==
    ASSUME NEW p \in 2..LastPhase PROVE NextPhase(p) \in 2..LastPhase
  BY BbrAssumption DEF NextPhase

\* In each mode an acknowledgement keeps the types, and leaves the mode for the
\* next one after its rounds.
LEMMA ModeStep ==
    ASSUME TypeOK, rt_prop' \in Int, bottleneck' \in Nat,
           NEW m \in Modes, NEW rounds \in Nat, on_ack_bbr_state_chk(m, rounds)
    PROVE  /\ mode' \in Modes /\ gain' \in Gains /\ phase' \in 2..LastPhase
           /\ data' \in 0..MaxData /\ age' \in Nat /\ window' \in 0..Wrap16 - 1
           /\ \/ mode' = m
              \/ m = "STARTUP" /\ mode' = "DRAIN"
              \/ m = "DRAIN" /\ mode' = "PROBE_BW" /\ rounds >= DrainRtts
              \/ m = "PROBE_RTT" /\ mode' = "PROBE_BW" /\ rounds >= ProbeRtts
<1> USE BbrAssumption
<1>1. /\ gain \in Gains /\ phase \in 2..LastPhase /\ data \in 0..MaxData
      /\ window \in 0..Wrap16 - 1 /\ 0 \in 0..MaxData /\ 2 \in 2..LastPhase
      /\ {1, 2, 5} \subseteq Gains /\ 2..LastPhase \subseteq Gains
  BY DEF TypeOK, Gains
<1>2. Product \in Int /\ Startup(Product) \in Int
  BY StartupInt DEF Product
<1>3. CASE m = "STARTUP"
  <2>1. StartupAck /\ UNCHANGED <<phase, data>>
    BY <1>3 DEF on_ack_bbr_state_chk
  <2>2. CASE rtts' % StartupRtts = 0 /\ startup_bw \in {"zero", "grows"}
    BY <2>1, <2>2, <1>1, <1>3 DEF StartupAck, Enter, Modes
  <2>3. CASE ~(rtts' % StartupRtts = 0 /\ startup_bw \in {"zero", "grows"})
    <3>1. Stay("STARTUP", 0) /\ gain' = 1 /\ SetWindow(Startup(Product))
      BY <2>1, <2>3 DEF StartupAck
    <3> QED
      BY <3>1, <2>1, <1>1, <1>2, <1>3, WindowSet DEF Stay, Modes
  <2> QED
    BY <2>2, <2>3
<1>4. CASE m = "PROBE_RTT"
  <2>1. ProbeRttAck(rounds)
    BY <1>4 DEF on_ack_bbr_state_chk
  <2>2. CASE rounds >= ProbeRtts
    BY <2>1, <2>2, <1>1, <1>4 DEF ProbeRttAck, Enter, Modes
  <2>3. CASE ~(rounds >= ProbeRtts)
    BY <2>1, <2>3, <1>1, <1>2, <1>4, WindowSet DEF ProbeRttAck, Stay, Modes
  <2> QED
    BY <2>2, <2>3
<1>5. CASE m = "PROBE_BW"
  <2>1. ProbeBwAck
    BY <1>5 DEF on_ack_bbr_state_chk
  <2>2. phase' \in 2..LastPhase /\ data' \in 0..MaxData
    BY <2>1, <1>1, NextPhaseType DEF ProbeBwAck
  <2> QED
    BY <2>1, <2>2, <1>1, <1>2, <1>5, WindowSet DEF ProbeBwAck, Stay, Modes
<1>6. CASE m = "DRAIN"
  <2>1. DrainAck(rounds)
    BY <1>6 DEF on_ack_bbr_state_chk
  <2>2. CASE rounds >= DrainRtts
    BY <2>1, <2>2, <1>1, <1>6 DEF DrainAck, Enter, Modes
  <2>3. CASE ~(rounds >= DrainRtts)
    BY <2>1, <2>3, <1>1, <1>2, <1>6, WindowSet DEF DrainAck, Stay, Modes
  <2> QED
    BY <2>2, <2>3
<1> QED
  BY <1>3, <1>4, <1>5, <1>6 DEF Modes

\* How the mode may change (ModeOrder, of one step).
Ordered ==
    mode' # mode =>
        \/ mode = "STARTUP" /\ mode' = "DRAIN"
        \/ mode = "DRAIN" /\ mode' = "PROBE_BW" /\ age + 1 >= DrainRtts
        \/ mode = "PROBE_RTT" /\ mode' = "PROBE_BW" /\ age + 1 >= ProbeRtts
        \/ mode = "PROBE_BW"

----------------------------------------------------------------------------
\* The steps

LEMMA AckStep ==
    ASSUME BbrInv, NEW rtt \in Rtts, NEW counted \in BOOLEAN, Ack(rtt, counted)
    PROVE  BbrInv' /\ Ordered
<1> DEFINE again == ~FirstSample /\ rtt <= minimum_rtt /\ mode = "PROBE_BW"
           m == IF again THEN "STARTUP" ELSE mode
           rounds == IF FirstSample \/ counted THEN age + 1 ELSE age
<1> USE BbrAssumption
<1>1. TypeOK
  BY DEF BbrInv
<1>2. SampleRtt(rtt) /\ SampleBandwidth(rtt, counted) /\ on_ack_bbr_state_chk(m, rounds)
  BY DEF Ack
<1>3. flight' \in Nat /\ countdown' = countdown /\ startup_bw' = startup_bw /\ stamp' = stamp
  BY <1>1 DEF Ack, TypeOK, garbage
<1>4. m \in Modes /\ rounds \in Nat /\ rounds <= age + 1 /\ age \in Nat
  BY <1>1 DEF TypeOK, Modes
<1>5. /\ minimum_rtt' \in Rtts
      /\ rt_prop' \in Rtts \cup {Never, InitialRtt} /\ rt_prop' \in Int
      /\ maximum' \in Nat /\ bottleneck' \in Nat /\ rtts' \in 0..RttWrap - 1
      /\ EstimatesOrdered'
  BY <1>2, Sampled
<1> HIDE DEF m, rounds
<1>6. /\ mode' \in Modes /\ gain' \in Gains /\ phase' \in 2..LastPhase
      /\ data' \in 0..MaxData /\ age' \in Nat /\ window' \in 0..Wrap16 - 1
      /\ \/ mode' = m
         \/ m = "STARTUP" /\ mode' = "DRAIN"
         \/ m = "DRAIN" /\ mode' = "PROBE_BW" /\ rounds >= DrainRtts
         \/ m = "PROBE_RTT" /\ mode' = "PROBE_BW" /\ rounds >= ProbeRtts
  BY <1>1, <1>2, <1>4, <1>5, ModeStep
<1>7. TypeOK'
  BY <1>1, <1>3, <1>5, <1>6 DEF TypeOK
<1>8. m = mode \/ mode = "PROBE_BW"
  BY DEF m
<1>9. Ordered
  BY <1>4, <1>6, <1>8 DEF Ordered
<1> QED
  BY <1>5, <1>7, <1>9 DEF BbrInv

LEMMA SendStep ==
    ASSUME BbrInv, Send PROVE BbrInv' /\ Ordered
<1> USE BbrAssumption DEF modeVars, estimates, garbage
<1>1. TypeOK /\ EstimatesOrdered
  BY DEF BbrInv
<1>2. data' \in 0..MaxData
  BY <1>1 DEF Send, Smaller, TypeOK
<1>3. flight' \in Nat
  BY <1>1 DEF Send, TypeOK
<1>4. TypeOK'
  BY <1>1, <1>2, <1>3 DEF Send, TypeOK
<1>5. EstimatesOrdered' /\ Ordered
  BY <1>1 DEF Send, EstimatesOrdered, FirstSample, Ordered
<1> QED
  BY <1>4, <1>5 DEF BbrInv

LEMMA TimerStep ==
    ASSUME BbrInv, NEW elapsed \in Intervals, NEW lost \in Lost, Timer(elapsed, lost)
    PROVE  BbrInv' /\ Ordered
<1> DEFINE left == IF countdown > 0 THEN countdown - SinceLastCall(elapsed, lost)
                   ELSE countdown
<1> USE BbrAssumption DEF garbage
<1>1. TypeOK /\ EstimatesOrdered
  BY DEF BbrInv
<1>2. /\ minimum_rtt \in Int /\ rt_prop \in Int /\ age \in Nat
      /\ minimum_rtt \in Rtts \cup {Never} /\ rt_prop \in Rtts \cup {Never, InitialRtt}
      /\ mode \in Modes
  BY <1>1, Numbers DEF TypeOK
<1>3. left \in Int /\ left <= CheckWindow
  BY <1>1 DEF TypeOK, SinceLastCall
<1>4. IF left < 0 THEN CheckMinimum ELSE countdown' = left /\ UNCHANGED <<mode, age, rt_prop>>
  BY DEF Timer
<1> HIDE DEF left
<1>5. UNCHANGED <<gain, phase, data, rtts, minimum_rtt, maximum, bottleneck, window, flight, garbage>>
  BY DEF Timer
<1>6. CASE left < 0
  <2>1. CheckMinimum
    BY <1>4, <1>6
  <2>2. Refreshed \in {minimum_rtt, rt_prop} /\ (mode = "PROBE_RTT" => Refreshed = minimum_rtt)
    BY DEF Refreshed
  <2>3. /\ rt_prop' \in {minimum_rtt, rt_prop} /\ minimum_rtt <= rt_prop'
        /\ countdown' = CheckWindow /\ age' \in Nat
    BY <2>1, <2>2, <1>1, <1>2 DEF CheckMinimum, EstimatesOrdered
  <2>4. mode' \in Modes /\ Ordered
    <3>1. CASE mode = "PROBE_BW"
      BY <3>1, <2>1 DEF CheckMinimum, Modes, Ordered
    <3>2. CASE mode = "PROBE_RTT"
      BY <3>2, <2>1, <2>2, <1>2 DEF CheckMinimum, Modes, Ordered
    <3>3. CASE mode \in {"STARTUP", "DRAIN"}
      BY <3>3, <2>1 DEF CheckMinimum, Modes, Ordered
    <3> QED
      BY <3>1, <3>2, <3>3, <1>2 DEF Modes
  <2>5. TypeOK'
    BY <1>1, <1>2, <1>5, <2>3, <2>4 DEF TypeOK
  <2>6. EstimatesOrdered'
    BY <1>1, <1>5, <2>3 DEF EstimatesOrdered, FirstSample
  <2> QED
    BY <2>4, <2>5, <2>6 DEF BbrInv
<1>7. CASE ~(left < 0)
  <2>1. countdown' = left /\ UNCHANGED <<mode, age, rt_prop>>
    BY <1>4, <1>7
  <2>2. TypeOK'
    BY <2>1, <1>1, <1>3, <1>5 DEF TypeOK
  <2>3. EstimatesOrdered' /\ Ordered
    BY <2>1, <1>1, <1>5 DEF EstimatesOrdered, FirstSample, Ordered
  <2> QED
    BY <2>2, <2>3 DEF BbrInv
<1> QED
  BY <1>6, <1>7

LEMMA BbrStep == BbrInv /\ [Next]_vars => BbrInv' /\ Ordered
<1> SUFFICES ASSUME BbrInv, [Next]_vars PROVE BbrInv' /\ Ordered
  OBVIOUS
<1>1. CASE Send
  BY <1>1, SendStep
<1>2. CASE AnyTimer
  BY <1>2, TimerStep DEF AnyTimer
<1>3. ASSUME NEW rtt \in Rtts, NEW counted \in BOOLEAN, Ack(rtt, counted)
      PROVE  BbrInv' /\ Ordered
  BY <1>3, AckStep
<1>4. CASE UNCHANGED vars
  BY <1>4 DEF vars, modeVars, estimates, garbage, BbrInv, TypeOK, EstimatesOrdered,
              FirstSample, Ordered
<1> QED
  BY <1>1, <1>2, <1>3, <1>4 DEF Next

\* BbrInv is an invariant, and holds in every step of a behaviour.
LEMMA BbrInvariant == Spec => []BbrInv
<1>1. BbrInv /\ [Next]_vars => BbrInv'
  BY BbrStep
<1> QED
  BY BbrInit, <1>1, PTL DEF Spec

----------------------------------------------------------------------------
\* Every variable of the estimator keeps its type: the gain is always one of
\* the ten of bbr_pacing_gain, whatever the phase does.
THEOREM TypeCorrect == Spec => []TypeOK
<1>1. BbrInv => TypeOK
  BY DEF BbrInv
<1> QED
  BY BbrInvariant, <1>1, PTL

\* rt_prop is never below the smallest round trip time seen, nor the bandwidth
\* above the largest seen, whatever the timer and the ACKs do in whatever order.
THEOREM EstimatesSafe == Spec => []EstimatesOrdered
<1>1. BbrInv => EstimatesOrdered
  BY DEF BbrInv
<1> QED
  BY BbrInvariant, <1>1, PTL

\* Modes follow each other as BBR has it, and DRAIN and PROBE_RTT last their
\* rounds, for any number of rounds.
THEOREM ModesInOrder == Spec => ModeOrder
<1>1. BbrInv /\ [Next]_vars => [Ordered]_vars
  BY BbrStep
<1>2. Spec => [][Ordered]_vars
  BY BbrInvariant, <1>1, PTL DEF Spec
<1>3. [Ordered]_vars => [mode' # mode =>
          \/ mode = "STARTUP" /\ mode' = "DRAIN"
          \/ mode = "DRAIN" /\ mode' = "PROBE_BW" /\ age + 1 >= DrainRtts
          \/ mode = "PROBE_RTT" /\ mode' = "PROBE_BW" /\ age + 1 >= ProbeRtts
          \/ mode = "PROBE_BW"]_vars
  BY DEF Ordered
<1> QED
  BY <1>2, <1>3, PTL DEF ModeOrder
=============================================================================
