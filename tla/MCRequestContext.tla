--------------------------- MODULE MCRequestContext ---------------------------
(***************************************************************************)
(* Small instances of RequestContext for TLC: two tokens, two profiles,    *)
(* and answers in which at most two keys differ from a plain one.          *)
(***************************************************************************)
EXTENDS RequestContext, FiniteSets

CONSTANTS alice, bob, main, work, pt, none, notbearer, missing, refused, garbled

Caps == {"max_batch_size", "confirm_timeout_seconds"}

Ceilings == [c \in Caps |-> 2]

Modes == {"shuffle_on_play", "repeat_mode"}

Plain == [profile |-> main, explicit |-> "yes", cap |-> [c \in Caps |-> 2],
          mode |-> [m \in Modes |-> "off"], market |-> none]

Odd == {missing, refused, garbled}

WithProfile(as)  == {[a EXCEPT !.profile = v] : a \in as, v \in {main, work} \cup Odd}
WithExplicit(as) == {[a EXCEPT !.explicit = v] : a \in as, v \in {"yes", "no"} \cup Odd}
WithCap(as)      == {[a EXCEPT !.cap[c] = v] : a \in as, c \in Caps, v \in (0..3) \cup Odd}
WithMode(as)     == {[a EXCEPT !.mode[m] = v] : a \in as, m \in Modes, v \in {"on"} \cup Odd}
WithMarket(as)   == {[a EXCEPT !.market = v] : a \in as, v \in {pt} \cup Odd}

OneAside(as) == WithProfile(as) \cup WithExplicit(as) \cup WithCap(as)
                \cup WithMode(as) \cup WithMarket(as)

UpToTwoAside == OneAside(OneAside({Plain}))
===============================================================================
