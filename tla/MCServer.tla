------------------------------ MODULE MCServer ------------------------------
(***************************************************************************)
(* Parts of the server that are looked at in one run: the coordinator of a *)
(* vault on the self-hosted server, the life of vaults, and the process    *)
(* that hosts coordinators.  A behaviour picks one of them and the others  *)
(* stand still.                                                            *)
(***************************************************************************)
EXTENDS MCCoordinator

CONSTANTS Vaults, Users, Owner, Names, Deployments, Tasks, PurgeRetries, RefreshRetries,
          MaxRequests, MaxFaults,
          HostTasks, Generations

\* Vaults and tasks have ids of their own, and somebody owns the organization.
ASSUME ServerIds == /\ "none" \notin Vaults /\ Owner \in Users
                    /\ PurgeRetries \in Nat /\ RefreshRetries \in Nat
                    /\ HostTasks \subseteq Nat \ {0} /\ Generations \subseteq Nat \ {0}

VARIABLES part,  \* which part this behaviour is about
          deployment, row, plan, queue, refreshes, coord, stored, task, requests, faults, hist,
          work, opened, current, sockets, phase, drain

\* Vaults, with what is proved of it.
V == INSTANCE VaultsProofs WITH objects <- stored
H == INSTANCE Host

vaultVars == <<deployment, row, plan, queue, refreshes, coord, stored, task, requests, faults, hist>>
hostVars == <<work, opened, current, sockets, phase, drain>>
mcvars == <<vars, vaultVars, hostVars, part>>

\* A part that stands still has one state.
MCInit == /\ part \in {"coordinator", "vaults", "host"}
          /\ Init /\ V!Init /\ H!Init
          /\ part # "coordinator" => retention = CHOOSE r \in Retentions : TRUE
          /\ part # "vaults" => deployment = "node"

MCNext ==
  \/ part = "coordinator" /\ Next /\ UNCHANGED <<part, vaultVars, hostVars>>
  \/ part = "vaults" /\ V!Next /\ UNCHANGED <<part, vars, hostVars>>
  \/ part = "host" /\ H!Next /\ UNCHANGED <<part, vars, vaultVars>>

MCSpec == MCInit /\ [][MCNext]_mcvars

\* Names are unique, members can unlock, an active vault is whole, and all is of its type
\* (Vaults: vault/service, vault/repository).
RowsAgree == part = "vaults" => V!TypeOK /\ V!RowsAgree
\* Nothing is left of a vault that was deleted (Vaults: purge).
GoneStaysGone == part = "vaults" => V!GoneStaysGone
\* A vault that is being deleted is going to be purged, unless its message was delivered for the
\* last time (Vaults: purge queue).
DeletionIsDriven == part = "vaults" => V!DeletionIsDriven
\* Coordinators get the limits of the plan (Vaults: policy refresh).
LimitsSettle == part = "vaults" => V!LimitsSettle
\* The chain of promises is a queue of callers: H!LockIsFifo, which only a step of the host
\* can break.
LockIsFifo == H!Fifo!Init /\ [][part = "host" => [H!Fifo!Next]_(H!Lines)]_mcvars
\* No tail of the queue stays behind, nobody works in a coordinator that has not been
\* migrated, and all is of its type (Host).
LockIsClean == part = "host" => H!TypeOK /\ H!LockIsClean
\* A shutdown that was not forced has waited for what it tracks (Host).
GracefulWaits == part = "host" => H!GracefulWaits
=============================================================================
