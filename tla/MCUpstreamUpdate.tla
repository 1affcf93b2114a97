--------------------------- MODULE MCUpstreamUpdate ---------------------------
(* Two IPv4 addresses and one IPv6 address, either kind being the own one. *)
EXTENDS UpstreamUpdate

IPv4Two == {"v4", "old4"}
IPv6One == {"v6"}

===============================================================================
