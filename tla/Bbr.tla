-------------------------------- MODULE Bbr --------------------------------
(***************************************************************************)
(* The estimator of a cTCP endpoint: the mode machine of ctcp_bbr.c, the   *)
(* samples that ctcp_receive takes of each acknowledged segment, and what  *)
(* ctcp_timer does about the round trip time.  The lists of segments, what *)
(* the network loses and the retransmissions are in Ctcp; here segments of *)
(* one size are sent as the window and the bandwidth-delay product let     *)
(* them, and acknowledged after any of the round trip times.               *)
(*                                                                         *)
(* Numbers of rtts_happened are told apart as far as the code does: modulo *)
(* RttWrap, and in age as the rounds since drain_begin or probe_rtt_begin. *)
(* Two fields are read and never assigned, and are what malloc left there: *)
(* the bandwidths of the start-up, and rtt_change_timestamp until the      *)
(* minimum has been found to change.                                       *)
(***************************************************************************)
EXTENDS Integers

CONSTANTS
    Len,            \* bytes of a segment
    Rtts,           \* round trip times, in ms
    InitialRtt,     \* rt_prop before the first sample
    InitialWindow,  \* send_window before it
    InitialBandwidth,
    CheckWindow,    \* ms between two looks at the minimum (10000)
    Intervals,      \* ms between two calls of ctcp_timer
    Lost,           \* what the time of a call loses as an unsigned int: multiples
                    \* of 2^32 ms, and the time is counted from 1970
    StartupRtts,    \* round trips of STARTUP (3)
    BandwidthRtts,  \* round trips between two updates of the bandwidth (10)
    DrainRtts,      \* round trips of DRAIN (10)
    ProbeRtts,      \* round trips of PROBE_RTT (4)
    LastPhase,      \* of PROBE_BW (8)
    PhaseScale,     \* divides the data of a phase (1000)
    MaxData,        \* bound: more data than any phase takes
    RttWrap,        \* bound: a multiple of StartupRtts and BandwidthRtts
    Wrap16          \* of uint16_t send_window

ASSUME BbrAssumption ==
    /\ Len \in Nat \ {0} /\ Rtts \subseteq Nat /\ Intervals \subseteq Nat \ {0}
    /\ InitialRtt \in Nat /\ InitialWindow \in Nat /\ InitialBandwidth \in Nat
    /\ CheckWindow \in Nat \ {0}
    /\ Lost \subseteq Nat /\ \A lost \in Lost : lost > CheckWindow
    /\ StartupRtts \in Nat \ {0} /\ BandwidthRtts \in Nat \ {0} /\ RttWrap \in Nat \ {0}
    /\ DrainRtts \in Nat \ {0} /\ ProbeRtts \in Nat \ {0}
    /\ LastPhase \in Nat /\ LastPhase > 2
    /\ PhaseScale \in Nat \ {0} /\ MaxData \in Nat /\ Wrap16 \in Nat \ {0}

VARIABLES
    mode,          \* currently_executing_mode
    gain,          \* the index in bbr_pacing_gain of pacing_gain
    phase,         \* temp_cnter_for_probe_bw
    data,          \* data_in_probe_bw_mode
    rtts, age,     \* rtts_happened
    minimum_rtt,   \* minimum_rtt_captured, Never before the first sample
    rt_prop,
    maximum, bottleneck,   \* maximum_bandwidth_captured, bottleneck_bandwidth
    countdown,     \* rtt_minimum_check_for_window_ms
    window,        \* send_window
    flight,        \* segments sent and not yet acknowledged
    startup_bw,    \* the bandwidths of the start-up: 0, or growing or not
    stamp          \* rtt_change_timestamp: long past or far in the future

modeVars == <<mode, gain, phase, age>>
estimates == <<minimum_rtt, rt_prop, maximum, bottleneck, rtts>>
garbage == <<startup_bw, stamp>>
vars == <<modeVars, estimates, garbage, data, countdown, window, flight>>

Never == -1
Modes == {"STARTUP", "DRAIN", "PROBE_BW", "PROBE_RTT"}

\* The indices in use of bbr_pacing_gain.  The gain of index 3 is the integer
\* 3/4, which is 0.
Gains == {0, 1, 5} \cup 2..LastPhase

TypeOK ==
    /\ mode \in Modes /\ gain \in Gains /\ phase \in 2..LastPhase
    /\ data \in 0..MaxData /\ rtts \in 0..RttWrap - 1 /\ age \in Nat
    /\ minimum_rtt \in Rtts \cup {Never}
    /\ rt_prop \in Rtts \cup {Never, InitialRtt}
    /\ maximum \in Nat /\ bottleneck \in Nat
    /\ countdown \in Int /\ countdown <= CheckWindow
    /\ window \in 0..Wrap16 - 1 /\ flight \in Nat
    /\ startup_bw \in {"zero", "grows", "level"}
    /\ stamp \in {"past", "future"}

\* bbr_init_state and ctcp_init.  (maximum starts as UINT_MAX, which is only
\* compared with itself.)
Init ==
    /\ mode = "STARTUP" /\ gain = 0 /\ phase = 2 /\ data = 0
    /\ rtts = 0 /\ age = 0 /\ minimum_rtt = Never /\ rt_prop = InitialRtt
    /\ maximum = 0 /\ bottleneck = InitialBandwidth
    /\ countdown = CheckWindow /\ window = InitialWindow % Wrap16 /\ flight = 0
    /\ startup_bw \in {"zero", "grows", "level"} /\ stamp \in {"past", "future"}

----------------------------------------------------------------------------
\* Modes

\* drain_begin, or probe_rtt_begin, is now; the other modes do not count.
Enter(m) == mode' = m /\ age' = 0

\* A faulty one that does not wrap.
OnlyNext(p) == p + 1

NextPhase(p) == IF p = LastPhase THEN 2 ELSE p + 1

\* The products are of floats, truncated: 1/2.89 is the gain of index 1.
Startup(x) == (x * 100) \div 289
SetWindow(cwnd) == window' = cwnd % Wrap16
Product == rt_prop' * bottleneck'

\* A faulty one that begins anew with every round.
StayAnew(m, rounds) == mode' = m /\ age' = 0

\* Stay in a mode for one more round; only DRAIN and PROBE_RTT look at age.
Stay(m, rounds) == mode' = m /\ age' = rounds

StartupAck ==
    IF rtts' % StartupRtts = 0 /\ startup_bw \in {"zero", "grows"}
    THEN Enter("DRAIN") /\ UNCHANGED <<gain, window>>
    ELSE Stay("STARTUP", 0) /\ gain' = 1 /\ SetWindow(Startup(Product))

ProbeRttAck(rounds) ==
    IF rounds >= ProbeRtts
    THEN Enter("PROBE_BW") /\ phase' = 2 /\ data' = 0 /\ UNCHANGED <<gain, window>>
    ELSE /\ Stay("PROBE_RTT", rounds) /\ gain' = 5 /\ SetWindow(Startup(Product))
         /\ UNCHANGED <<phase, data>>

ProbeBwAck ==
    /\ Stay("PROBE_BW", 0)
    /\ IF data >= Product \div PhaseScale
       THEN phase' = NextPhase(phase) /\ data' = 0
       ELSE UNCHANGED <<phase, data>>
    /\ gain' = phase' /\ SetWindow(Product)

DrainAck(rounds) ==
    IF rounds >= DrainRtts
    THEN Enter("PROBE_BW") /\ phase' = 2 /\ data' = 0 /\ UNCHANGED <<gain, window>>
    ELSE /\ Stay("DRAIN", rounds) /\ gain' = 2 /\ SetWindow(Product)
         /\ UNCHANGED <<phase, data>>

\* on_ack_bbr_state_chk, in mode m and with that many rounds in it.
on_ack_bbr_state_chk(m, rounds) ==
    CASE m = "STARTUP" -> StartupAck /\ UNCHANGED <<phase, data>>
      [] m = "PROBE_RTT" -> ProbeRttAck(rounds)
      [] m = "PROBE_BW" -> ProbeBwAck
      [] m = "DRAIN" -> DrainAck(rounds)

----------------------------------------------------------------------------
\* Samples

\* Bytes per ms, truncated; 0 for a round trip that took no time.
Bandwidth(rtt) == IF rtt = 0 THEN 0 ELSE Len \div rtt
Larger(a, b) == IF a < b THEN b ELSE a
Smaller(a, b) == IF a < b THEN a ELSE b
FirstSample == minimum_rtt = Never

\* A faulty one that leaves the initial rt_prop.
MinimumOnly(rtt) ==
    /\ minimum_rtt' = IF FirstSample \/ rtt <= minimum_rtt THEN rtt ELSE minimum_rtt
    /\ rt_prop' = rt_prop

\* A new minimum does not become rt_prop before ctcp_timer makes it so.
SampleRtt(rtt) ==
    /\ minimum_rtt' = IF FirstSample \/ rtt <= minimum_rtt THEN rtt ELSE minimum_rtt
    /\ rt_prop' = IF FirstSample THEN rtt ELSE rt_prop

\* The bandwidth is the first sample, then the maximum, looked at from time to
\* time.
SampleBandwidth(rtt, counted) ==
    IF FirstSample
    THEN /\ rtts' = (rtts + 1) % RttWrap
         /\ maximum' = Bandwidth(rtt) /\ bottleneck' = Bandwidth(rtt)
    ELSE IF counted
    THEN /\ rtts' = (rtts + 1) % RttWrap
         /\ maximum' = Larger(maximum, Bandwidth(rtt))
         /\ bottleneck' = IF rtts' % BandwidthRtts = 0 THEN Larger(bottleneck, maximum')
                          ELSE bottleneck
    ELSE UNCHANGED <<rtts, maximum, bottleneck>>

\* ctcp_receive for one acknowledged segment.  A sample counts when the sender
\* was not short of data: the flag is an int that is read as a long, and so
\* one that was not set may be read as set.
Ack(rtt, counted) ==
    /\ flight > 0 /\ flight' = flight - 1
    /\ SampleRtt(rtt) /\ SampleBandwidth(rtt, counted)
    /\ LET again == ~FirstSample /\ rtt <= minimum_rtt /\ mode = "PROBE_BW"
       IN  on_ack_bbr_state_chk(IF again THEN "STARTUP" ELSE mode,
                                IF FirstSample \/ counted THEN age + 1 ELSE age)
    /\ UNCHANGED <<countdown, garbage>>

\* A segment fits the window, and less than the bandwidth-delay product is on
\* its way (a product of 0, or below it, does not limit).
Bdp == (rt_prop * bottleneck * 289) \div 100
Send ==
    /\ flight * Len < window /\ (Bdp > 0 => flight * Len < Bdp)
    /\ flight' = flight + 1 /\ data' = Smaller(data + Len, MaxData)
    /\ UNCHANGED <<modeVars, estimates, garbage, countdown, window>>

----------------------------------------------------------------------------
\* ctcp_timer

\* A faulty look that leaves rt_prop to the comparison below.
NoRefresh == rt_prop

\* At the end of a PROBE_RTT.
Refreshed == IF mode = "PROBE_RTT" THEN minimum_rtt ELSE rt_prop

\* A look at the minimum.  The mode that the time since the last change gives
\* is tested again when the minimum is lower.
CheckMinimum ==
    LET m == IF mode = "PROBE_BW" /\ stamp = "past" THEN "PROBE_RTT" ELSE mode
        lower == minimum_rtt < Refreshed
    IN
    /\ rt_prop' = IF lower THEN minimum_rtt ELSE Refreshed
    /\ mode' = IF lower /\ m = "PROBE_RTT" THEN "STARTUP"
               ELSE IF lower /\ m = "PROBE_BW" THEN "PROBE_RTT" ELSE m
    /\ age' = IF mode' = mode THEN age ELSE 0
    /\ countdown' = CheckWindow

\* The time of the last call is kept in an unsigned int, and is taken off the
\* present time, a long of 64 bits.
SinceLastCall(elapsed, lost) == elapsed + lost

\* The time since the last call is taken off the countdown while some is left:
\* with what the conversion lost, more than there ever is.
Timer(elapsed, lost) ==
    /\ LET left == IF countdown > 0 THEN countdown - SinceLastCall(elapsed, lost)
                   ELSE countdown
       IN  IF left < 0 THEN CheckMinimum
           ELSE countdown' = left /\ UNCHANGED <<mode, age, rt_prop>>
    /\ UNCHANGED <<gain, phase, data, rtts, minimum_rtt, maximum, bottleneck,
                   window, flight, garbage>>

----------------------------------------------------------------------------
CountedAck == \E rtt \in Rtts : Ack(rtt, TRUE)
AnyTimer == \E elapsed \in Intervals, lost \in Lost : Timer(elapsed, lost)
Next == \/ Send \/ AnyTimer
        \/ \E rtt \in Rtts, counted \in BOOLEAN : Ack(rtt, counted)

Spec == Init /\ [][Next]_vars

\* The loop of the library calls ctcp_timer.
FairSpec == Spec /\ WF_vars(AnyTimer)
----------------------------------------------------------------------------
\* Properties

\* What the estimator believes is on the safe side of what was measured: rt_prop
\* is never below the minimum, and the bandwidth not above the maximum.  (So
\* the second comparison in ctcp_timer, which records the time of a change, is
\* never true.)
EstimatesOrdered ==
    /\ minimum_rtt <= rt_prop
    /\ ~FirstSample => bottleneck <= maximum

\* A step changes the mode as BBR has it: DRAIN follows STARTUP and lasts its
\* rounds; PROBE_RTT follows PROBE_BW, lasts its rounds, and is never given up
\* for STARTUP, although ctcp_timer tests for that.  PROBE_BW is left for
\* STARTUP (and, by the same segment, for DRAIN) too.
ModeOrder ==
    [][mode' # mode =>
          \/ mode = "STARTUP" /\ mode' = "DRAIN"
          \/ mode = "DRAIN" /\ mode' = "PROBE_BW" /\ age + 1 >= DrainRtts
          \/ mode = "PROBE_RTT" /\ mode' = "PROBE_BW" /\ age + 1 >= ProbeRtts
          \/ mode = "PROBE_BW"]_vars

\* Each mode is left as long as samples are counted: STARTUP unless malloc
\* left bandwidths there that are neither 0 nor grow; PROBE_BW, for a look at
\* the round trip time, unless the time of the last change, which nothing
\* records, lies in the future.
ModesLeft ==
    []<><<CountedAck>>_vars =>
        /\ mode = "DRAIN" ~> mode # "DRAIN"
        /\ mode = "PROBE_RTT" ~> mode # "PROBE_RTT"
        /\ mode = "STARTUP" ~> mode # "STARTUP" \/ startup_bw = "level"
        /\ mode = "PROBE_BW" ~> mode # "PROBE_BW" \/ stamp = "future"
=============================================================================
