---------------------------- MODULE MCCollectors ----------------------------
(***************************************************************************)
(* The instance of Collectors for TLC: both collectors; of the path the    *)
(* route comes and goes, of the radio what it says of its BSSID.           *)
(***************************************************************************)
EXTENDS Collectors

BothKinds == {"openwrt", "unifi"}
MCAppliances == {{"up", "address"}, {"up", "address", "route", "online"}, {"up", "route", "associated"}}
=============================================================================
