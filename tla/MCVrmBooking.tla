---------------------------- MODULE MCVrmBooking -----------------------------
(* Small instances of VrmBooking: two passes that can hold the intent one    *)
(* after the other, and a staff member.                                      *)
EXTENDS VrmBooking, TLC

CONSTANTS r1, r2, p1, h1, h2

MCRunners == {r1, r2}
MCStaff == {p1}
MCFull == {"full"}
MCPast == {"past"}
MCBothSearches == {"full", "past"}
MCOneHash == {h1}
MCTwoHashes == {h1, h2}
MCCutover == {"cutover"}
MCRequest == {"request"}
MCBothLanes == {"cutover", "request"}
MCSymmetry == Permutations(MCRunners)
=============================================================================
