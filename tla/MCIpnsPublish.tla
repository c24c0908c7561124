---------------------------- MODULE MCIpnsPublish ----------------------------
(* IpnsPublish for TLC: publishes are interchangeable; the first router is the
   delegated one, as _create_routing builds them. *)
EXTENDS IpnsPublish, TLC

FirstRouter == {1}
PublishSymmetry == Permutations(Publishes)
=============================================================================
