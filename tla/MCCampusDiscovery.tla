------------------------- MODULE MCCampusDiscovery -------------------------
(* Instances of CampusDiscovery for model checking. *)
EXTENDS CampusDiscovery
=============================================================================
