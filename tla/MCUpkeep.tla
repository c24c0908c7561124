------------------------------- MODULE MCUpkeep --------------------------------
(* A TieredRouting of the HTTP client and the DHT, as _create_routing makes it. *)
EXTENDS Upkeep

MCTier == <<"ipni", "dht">>
=============================================================================
