------------------------ MODULE MCChannelArbitrator ------------------------
(* Small instances of ChannelArbitrator. *)
EXTENDS ChannelArbitrator

K(d, hp, s, o) == [dir |-> d, hop |-> hp, sets |-> s, outs |-> o, expiry |-> 2]

Two == {"local", "remote"}
All == Two \cup {"pending"}

NoHtlc == K("out", "fwd", {}, {})
OutLockedIn == K("out", "fwd", All, All)
OutDustForPeer == K("out", "own", Two, {"local"})
OutSigned == K("out", "fwd", {"pending"}, {"pending"})
OutUnsignedByPeer == K("out", "fwd", {"remote"}, {"remote"})
InForwarded == K("in", "fwd", Two, Two)
InDustForUs == K("in", "exit", Two, {"remote"})
InBad == K("in", "bad", {"local"}, {"local"})

Ch(k1, k2, c, p) ==
    [kind |-> [h \in {"h1", "h2"} |-> IF h = "h1" THEN k1 ELSE k2],
     hasCommit |-> c, pend |-> p]

\* One HTLC of each kind, some beside our output, and one pair.
MCChannels ==
    {Ch(k, NoHtlc, TRUE, FALSE) : k \in {OutDustForPeer, OutUnsignedByPeer}}
      \cup {Ch(k, NoHtlc, FALSE, FALSE) :
              k \in {NoHtlc, InBad, InForwarded, InDustForUs}}
      \cup {Ch(OutSigned, NoHtlc, FALSE, TRUE), Ch(OutLockedIn, InForwarded, FALSE, TRUE)}
=============================================================================
