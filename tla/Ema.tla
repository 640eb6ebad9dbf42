--------------------------------- MODULE Ema ---------------------------------
(***************************************************************************)
(* The exponential moving averages of a price account (upd_twap and        *)
(* upd_ema): each keeps a weighted sum and the sum of the weights, where a *)
(* price weighs the inverse of its confidence and everything earlier       *)
(* decays with the slots since the last update.                            *)
(***************************************************************************)
EXTENDS Decimal

CONSTANTS
    ONE_DIGITS,       \* 8: one is 10^8 * 10^-8
    PD_EMA_MAX_DIFF,  \* 4145: the slots after which an average starts anew
    PD_EMA_DECAY,     \* -117065
    PD_EMA_EXPO,      \* -9
    expo_             \* the exponent of the account's prices

One == PD(10^ONE_DIGITS, -ONE_DIGITS)

EmptyEma == [val |-> 0, numer |-> Stored(0, 0), denom |-> Stored(0, 0)]

\* The inverse of the confidence.
Weight(conf) == IF conf.v # 0 THEN pd_div(One, conf) ELSE [n |-> One, fits |-> TRUE]

\* 1 - decay rate * slots, without a power function.
Decay(nslot) == pd_add(pd_mul(PD(PD_EMA_DECAY, PD_EMA_EXPO), PD(nslot, 0)).n, One)

\* Mutant: only the weighted sum decays.
upd_ema_numer(ema, val, conf, nslot) ==
    LET cwgt == Weight(conf)
        decay == Decay(nslot)
        fresh == nslot > PD_EMA_MAX_DIFF
        wval == pd_mul(val, cwgt.n)
        numer == IF fresh THEN wval ELSE pd_add(pd_mul(pd_load(ema.numer), decay.n).n, wval.n)
        denom == IF fresh THEN cwgt ELSE pd_add(pd_load(ema.denom), cwgt.n)
        avg == IF fresh THEN [n |-> val, fits |-> TRUE] ELSE pd_div(numer.n, denom.n)
        out == pd_adjust(avg.n, expo_)
        n == pd_store(numer.n)
        d == pd_store(denom.n)
    IN  [ema |-> [val |-> out.v,
                  numer |-> IF n.ok /\ d.ok THEN n ELSE ema.numer,
                  denom |-> IF n.ok /\ d.ok THEN d ELSE ema.denom],
         fits |-> /\ cwgt.fits /\ decay.fits /\ wval.fits /\ numer.fits
                  /\ denom.fits /\ avg.fits /\ out.fits]

\* The average after a price val of confidence conf, nslot slots after the
\* last one: the average starts anew, or decays and takes the price in.  The
\* sums are kept when they cannot be stored; the value is not.
upd_ema(ema, val, conf, nslot) ==
    LET cwgt == Weight(conf)
        decay == Decay(nslot)
        fresh == nslot > PD_EMA_MAX_DIFF
        wval == pd_mul(val, cwgt.n)
        numer == IF fresh THEN wval ELSE pd_add(pd_mul(pd_load(ema.numer), decay.n).n, wval.n)
        denom == IF fresh THEN cwgt ELSE pd_add(pd_mul(pd_load(ema.denom), decay.n).n, cwgt.n)
        avg == IF fresh THEN [n |-> val, fits |-> TRUE] ELSE pd_div(numer.n, denom.n)
        out == pd_adjust(avg.n, expo_)
        n == pd_store(numer.n)
        d == pd_store(denom.n)
    IN  [ema |-> [val |-> out.v,
                  numer |-> IF n.ok /\ d.ok THEN n ELSE ema.numer,
                  denom |-> IF n.ok /\ d.ok THEN d ELSE ema.denom],
         fits |-> /\ cwgt.fits /\ decay.fits /\ wval.fits /\ numer.fits
                  /\ denom.fits /\ avg.fits /\ out.fits]

\* upd_twap: the averages of the price and of its confidence.
upd_twap(twap, twac, price, conf, nslots) ==
    LET px == pd_scale(PD(price, expo_))
        cf == pd_scale(PD(conf, expo_))
    IN  [twap |-> upd_ema(twap, px, cf, nslots), twac |-> upd_ema(twac, cf, cf, nslots)]
=============================================================================
