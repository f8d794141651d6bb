--------------------------- MODULE MCPeerInboxes ---------------------------
(***************************************************************************)
(* PeerInboxes for TLC: sessions are interchangeable, so states that differ *)
(* by a renaming of sessions count once.                                    *)
(***************************************************************************)
EXTENDS PeerInboxes, TLC

Alike == Permutations(Sessions)
=============================================================================
