----------------------------- MODULE MCBanList -----------------------------
(* One address banned by itself, one by a pattern that covers both senders.   *)
EXTENDS BanList

CONSTANTS home, net, h1, h2

MCCovers(ip, s) == ip = net \/ s = h1
=============================================================================
