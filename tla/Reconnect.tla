------------------------------- MODULE Reconnect -------------------------------
(***************************************************************************)
(* One client from the lookup of a sandbox to the end of its handle's use: *)
(* Listing finds the sandbox by its name among those that other clients    *)
(* create and delete, GetSandbox makes a handle of it (or Create, or       *)
(* GetSandbox with an id that was kept), and SandboxHandle's operations    *)
(* run on that handle.                                                     *)
(***************************************************************************)
EXTENDS SandboxHandle, Listing

vars == <<handleSpecVars, listingVars>>

TypeOK == HandleTypeOK /\ ListingTypeOK

Init == HandleInit /\ ListingInit

\* Until there is a handle the service is what the listings see of it.
Look ==
  /\ ~known
  /\ ListSandboxes \/ GetSandboxByName \/ ListingStep
  /\ UNCHANGED handleSpecVars

\* The sandbox found by name becomes a handle, of a deleted sandbox too when it
\* has gone since it was listed.
ReconnectByName ==
  /\ GetFound
  /\ directory[results[1]] = "gone" => sandbox = "deleted"
  /\ GetReturns

\* A new sandbox, or one whose id the caller has.
Own ==
  /\ stage = "idle"
  /\ CreateReturns \/ GetReturns
  /\ Forget /\ outcome' = "none" /\ UNCHANGED alone

Use == HandleStep /\ UNCHANGED listingVars

Next == Look \/ ReconnectByName \/ Own \/ Use

Spec == Init /\ [][Next]_vars

-----------------------------------------------------------------------------
\* GetSandboxByName reports an error rather than guessing, so that a Delete
\* never destroys an arbitrary one of several: no other sandbox had the name
\* all through the lookup that led to the handle, however the lookup's pages
\* were cut and whatever was created and deleted between them.
NothingArbitraryDeleted == destroyed /\ outcome = "found" => alone
=============================================================================
