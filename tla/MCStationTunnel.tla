--------------------------- MODULE MCStationTunnel ---------------------------
(* Two consoles that may join one host.                                    *)
EXTENDS StationTunnel
=============================================================================
