---------------------------- MODULE MCBMPIngest ----------------------------
(* Instance of BMPIngest for TLC: one instance of a VRF besides the default *)
(* one; the device guest belongs to no instance that dials in.              *)
EXTENDS BMPIngest, TLC

CONSTANTS rd1, cust, guest

MCOneVRFOf == rd1 :> cust
=============================================================================
