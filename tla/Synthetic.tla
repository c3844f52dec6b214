-------------------------------- MODULE Synthetic --------------------------------
(***************************************************************************)
(* feed/src/synthetic.rs: the generator of synthetic streams.  A random    *)
(* draw (rng.rs) is any value of its range.  Time stamps are left out: no  *)
(* control depends on them.  The seq of an event is its position.          *)
(***************************************************************************)
EXTENDS Corpus, PriceLevels

CONSTANTS STEADY_DEPTH,    \* 8 in the code: levels around the touch
          MinSweep,        \* 20: the fewest levels of a cascade
          BurstCalm, BurstLength,   \* the lengths drawn for a burst cycle
          CrashCalm,                \* and for the calm before a crash
          Configs          \* the GenConfigs: [profile, events, mid, band, max_qty]

Profile == {"Steady", "Burst", "FlashCrash"}

ASSUME SyntheticAssumption ==
  /\ STEADY_DEPTH \in Nat \ {0} /\ MinSweep \in Nat \ {0}
  /\ BurstCalm \cup BurstLength \cup CrashCalm \subseteq Nat \ {0}
  /\ Configs \subseteq [profile : Profile, events : Nat, mid : Int, band : Int, max_qty : Int]

VARIABLES cfg,
          phase,    \* the loop the generator is in
          left,     \* iterations left of a loop that counts down
          k,        \* the counter of a loop that counts up
          sim       \* Sim: [ladder, out]

genVars == <<cfg, phase, left, k, sim>>

Most(a, b) == IF a >= b THEN a ELSE b
Least(a, b) == IF a <= b THEN a ELSE b

SimInit == [ladder |-> NoLevels, out |-> <<>>]

GenInit ==
  /\ cfg \in Configs
  /\ phase = "new" /\ left = 0 /\ k = 1
  /\ sim = SimInit

-------------------------------------------------------------------------------
(* The emitters: one event each, unless the target is reached *)

Full(s) == Len(s.out) >= cfg.events

\* As level without the check of the target.
LevelUnchecked(s, side, px, qty) ==
  [ladder |-> [s.ladder EXCEPT ![side] = Update(@, px, qty)],
   out |-> Append(s.out, LevelEvent(side, px, qty))]

\* As level with a quantity of zero kept as a level.
LevelKeepingZero(s, side, px, qty) ==
  IF Full(s) THEN s
  ELSE [ladder |-> [s.ladder EXCEPT ![side] = With(@, px, qty)],
        out |-> Append(s.out, LevelEvent(side, px, qty))]

Level(s, side, px, qty) ==
  IF Full(s) THEN s
  ELSE [ladder |-> [s.ladder EXCEPT ![side] = Update(@, px, qty)],
        out |-> Append(s.out, LevelEvent(side, px, qty))]

Trade(s, aggressor, px, qty) ==
  IF Full(s) THEN s ELSE [s EXCEPT !.out = Append(@, TradeEvent(aggressor, px, qty))]

Clear(s) ==
  IF Full(s) THEN s ELSE [ladder |-> NoLevels, out |-> Append(s.out, ClearEvent)]

\* best_bid and best_ask: the price alone.
Priced(side) == DOMAIN sim.ladder[side]
Touch(side) == CHOOSE p \in Priced(side) : \A q \in Priced(side) \ {p} : Better(side, p, q)

-------------------------------------------------------------------------------
(* The draws *)

\* SplitMix64::below, n not zero.
Below(n) == 0 .. n - 1

\* roll_i64: zero for an n that is not positive.
Roll(n) == IF n <= 0 THEN {0} ELSE Below(n)

RandQty == {1 + r : r \in Roll(Most(cfg.max_qty, 1))}

\* As geo_offset counting from zero.
GeoOffsetFromMid(cap) == 0 .. Most(cap, 1)

\* geo_offset: how many coins fall one way, from 1 up to cap.
GeoOffset(cap) == 1 .. Most(cap, 1)

DecayQty(off) == Most(cfg.max_qty \div 2^Least(off - 1, 6), 1)

PxAt(side, off) == IF side = "Bid" THEN cfg.mid - off ELSE cfg.mid + off

-------------------------------------------------------------------------------
(* seed *)

Begin ==
  /\ phase = "new"
  /\ sim' = Clear(sim)
  /\ phase' = "seed" /\ k' = 1
  /\ UNCHANGED <<cfg, left>>

\* A bid and an ask at offset k.
SeedPair ==
  /\ phase = "seed" /\ k <= cfg.band /\ ~Full(sim)
  /\ sim' = LET bid == Level(sim, "Bid", cfg.mid - k, DecayQty(k))
            IN Level(bid, "Ask", cfg.mid + k, DecayQty(k))
  /\ k' = k + 1
  /\ UNCHANGED <<cfg, phase, left>>

Seeded ==
  /\ phase = "seed" /\ k > cfg.band /\ ~Full(sim)
  /\ phase' = "flow"
  /\ UNCHANGED <<cfg, left, k, sim>>

-------------------------------------------------------------------------------
(* steady_event *)

\* As try_trade that claims to have traded on an empty side.
TryTradeBlind(side) ==
  IF Priced(side) = {} THEN UNCHANGED sim
  ELSE \E q \in RandQty : sim' = Trade(sim, Opposite(side), Touch(side), q)

\* try_trade: the aggressor takes the touch of the other side.  On an empty side
\* nothing is emitted and steady_event goes on to edge_churn.
TryTrade(side) ==
  /\ Priced(side) # {}
  /\ \E q \in RandQty : sim' = Trade(sim, Opposite(side), Touch(side), q)

LevelUpdate(side) ==
  \E off \in GeoOffset(Least(STEADY_DEPTH, Most(cfg.band, 1))), qty \in {0} \cup RandQty :
    sim' = Level(sim, side, PxAt(side, off), qty)

\* As edge_churn with the roll over the whole band.
EdgeChurnWide(side) ==
  \E r \in Roll(cfg.band), qty \in {0} \cup RandQty :
    sim' = Level(sim, side, PxAt(side, STEADY_DEPTH + 1 + r), qty)

EdgeChurn(side) ==
  \E r \in Roll(cfg.band - STEADY_DEPTH), qty \in {0} \cup RandQty :
    sim' = Level(sim, side, PxAt(side, STEADY_DEPTH + 1 + r), qty)

SteadyEvent == \E side \in Side : TryTrade(side) \/ LevelUpdate(side) \/ EdgeChurn(side)

-------------------------------------------------------------------------------
(* The profiles *)

\* An iteration of generate's loop for Steady.
Steady ==
  /\ phase = "flow" /\ cfg.profile = "Steady" /\ ~Full(sim)
  /\ SteadyEvent
  /\ UNCHANGED <<cfg, phase, left, k>>

\* burst_cycle and crash_cycle both begin with a calm stretch.
Calm ==
  /\ phase = "flow" /\ ~Full(sim)
  /\ \/ cfg.profile = "Burst" /\ left' \in BurstCalm
     \/ cfg.profile = "FlashCrash" /\ left' \in CrashCalm
  /\ phase' = "calm"
  /\ UNCHANGED <<cfg, k, sim>>

\* An iteration of a stretch of steady events, calm or dense.
Stretch ==
  /\ phase \in {"calm", "burst"} /\ left > 0 /\ ~Full(sim)
  /\ SteadyEvent
  /\ left' = left - 1
  /\ UNCHANGED <<cfg, phase, k>>

SweepLength == Most((cfg.band * 3) \div 4, MinSweep)

StretchEnds ==
  /\ phase \in {"calm", "burst"} /\ left = 0 /\ ~Full(sim)
  /\ \/ phase = "calm" /\ cfg.profile = "Burst"
        /\ phase' = "burst" /\ left' \in BurstLength
     \/ phase = "calm" /\ cfg.profile = "FlashCrash"
        /\ phase' = "sweep" /\ left' = SweepLength
     \/ phase = "burst" /\ phase' = "flow" /\ left' = 0
  /\ UNCHANGED <<cfg, k, sim>>

\* As the cascade that wipes the level before the trade on it.
TakeBestWipedFirst ==
  LET bb == Touch("Bid")
  IN sim' = Trade(Level(sim, "Bid", bb, 0), "Ask", bb, sim.ladder["Bid"][bb])

\* The cascade: a trade takes out the best bid, then its level goes.
TakeBest ==
  LET bb == Touch("Bid")
  IN sim' = Level(Trade(sim, "Ask", bb, sim.ladder["Bid"][bb]), "Bid", bb, 0)

Sweep ==
  /\ phase = "sweep" /\ left > 0 /\ ~Full(sim) /\ Priced("Bid") # {}
  /\ TakeBest
  /\ left' = left - 1
  /\ UNCHANGED <<cfg, phase, k>>

SweepEnds ==
  /\ phase = "sweep" /\ ~Full(sim) /\ (left = 0 \/ Priced("Bid") = {})
  /\ phase' = "recover" /\ k' = 1 /\ left' = 0
  /\ UNCHANGED <<cfg, sim>>

RecoverLength == Most(SweepLength \div 2, 1)

\* The bids next to the mid again, outwards.
Recover ==
  /\ phase = "recover" /\ k <= RecoverLength /\ ~Full(sim)
  /\ \E q \in RandQty : sim' = Level(sim, "Bid", cfg.mid - k, q)
  /\ k' = k + 1
  /\ UNCHANGED <<cfg, phase, left>>

RecoverEnds ==
  /\ phase = "recover" /\ k > RecoverLength /\ ~Full(sim)
  /\ phase' = "flow"
  /\ UNCHANGED <<cfg, left, k, sim>>

\* Every loop stops on the target, and so does generate.
Finish ==
  /\ phase \notin {"new", "done"} /\ Full(sim)
  /\ phase' = "done"
  /\ UNCHANGED <<cfg, left, k, sim>>

GenNext ==
  \/ Begin \/ SeedPair \/ Seeded \/ Steady \/ Calm \/ Stretch \/ StretchEnds
  \/ Sweep \/ SweepEnds \/ Recover \/ RecoverEnds \/ Finish

\* A generator that nothing else follows.
GenSpec == GenInit /\ [][GenNext]_genVars

-------------------------------------------------------------------------------
(* Correctness *)

\* The stream has exactly as many events as were asked for, whichever loop the target
\* falls into (synthetic.rs:54-55, 104-106).
ExactCount ==
  /\ Len(sim.out) <= cfg.events
  /\ phase = "done" => Len(sim.out) = cfg.events

\* The generator's own ladder is the book its stream builds, so what it aims at is
\* what a consumer has (synthetic.rs:73-74).
LadderIsReplay == sim.ladder = Replay(sim.out)

\* A book built from the stream is never crossed or locked, after any of its events
\* (synthetic.rs:193, 241-264, 332-340).
NeverCrossed ==
  LET b == Replay(sim.out)
  IN \A bid \in DOMAIN b["Bid"], ask \in DOMAIN b["Ask"] : bid < ask

\* Neither best price is further from the mid than the band (synthetic.rs:45: "Half-width
\* of the active price band (ticks); the touch never leaves it").
TouchInBand ==
  \A side \in Side :
    Priced(side) # {} => Touch(side) \in cfg.mid - cfg.band .. cfg.mid + cfg.band

\* A band that holds what edge churn and the recovery place without regard to it.
WideBand ==
  /\ cfg.band > STEADY_DEPTH
  /\ cfg.profile = "FlashCrash" => cfg.band >= RecoverLength

\* In a wide band no level at all leaves it, whatever was drawn (synthetic.rs:45, 241-264,
\* 332-343; the test at 403 has a band of 64).
StaysInBand ==
  WideBand =>
    \A side \in Side : \A px \in Priced(side) : \E off \in 1 .. cfg.band : px = PxAt(side, off)

\* A trade prints at the best price of the side it takes from, as it is in the book
\* the stream has built when it prints (synthetic.rs:223-238, 319-330).
TradesAtTouch ==
  [][\A i \in Len(sim.out) + 1 .. Len(sim'.out) :
       LET ev == sim'.out[i]
           taken == Replay(SubSeq(sim'.out, 1, i - 1))[Opposite(ev.side)]
       IN ev.kind = "Trade" =>
            /\ ev.px \in DOMAIN taken
            /\ \A p \in DOMAIN taken \ {ev.px} : Better(Opposite(ev.side), ev.px, p)]_genVars

\* The stream has as many events as were asked for and is a whole account of the
\* generator's book (synthetic.rs:54-55, 73-74).
StreamIsLadder == ExactCount /\ LadderIsReplay

\* The two sides never meet, in any band, and stay in a wide one
\* (synthetic.rs:45, 193, 241-264).
PricesInPlace == NeverCrossed /\ StaysInBand
===============================================================================
