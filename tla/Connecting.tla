------------------------------ MODULE Connecting ------------------------------
(***************************************************************************)
(* Connecting to a device: the plugin attaches its adapters to it (module  *)
(* Attach), and the open modem is prepared (module Preparation).           *)
(***************************************************************************)
EXTENDS Attach, Preparation

(* A connection that fails at any step leaves nothing open, and one that    *)
(* succeeds tells what still has to be done by hand (the plugins'           *)
(* discoverAdapters(), modem.ts, preparation/runner.ts).                    *)
ConnectedSoundly == NothingLeftOpen /\ HotIsTold
===============================================================================
