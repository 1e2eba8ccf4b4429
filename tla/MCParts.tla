------------------------------ MODULE MCParts ------------------------------
(* The parts of the server and of the proxy that share nothing, in one run: *)
(* a behaviour is one of the part that it starts with, and the other parts  *)
(* keep their initial state, in which no fair action is enabled.            *)
EXTENDS AcmeOrders, KeyRotation, AgentLink, Discovery, HttpCache, UdpSessions, BackupFiles,
        ScheduledCommands, ComposeDeploy, Previews, SrvNames, RoundRobin

CONSTANTS
  c1, c2, x, y, e, a, d, q1, q2,
  Parts  \* the parts that the run is about

OneEntry == [t \in AcmeTargets |-> e]

OneOrTwo == {<<x>>, <<x, y>>}

VARIABLE part

\* A step of the part p: the others do not move.
Only(p) ==
  /\ part = p /\ UNCHANGED part
  /\ p # "acme" => UNCHANGED acmeVars
  /\ p # "keys" => UNCHANGED rotationVars
  /\ p # "agent" => UNCHANGED agentVars
  /\ p # "discovery" => UNCHANGED discoveryVars
  /\ p # "cache" => UNCHANGED cacheVars
  /\ p # "udp" => UNCHANGED udpVars
  /\ p # "backup" => UNCHANGED backupVars
  /\ p # "command" => UNCHANGED commandVars
  /\ p # "compose" => UNCHANGED composeVars
  /\ p # "preview" => UNCHANGED previewVars
  /\ p # "srv" => UNCHANGED srvVars
  /\ p # "robin" => UNCHANGED robinVars

PartsInit ==
  /\ part \in Parts
  /\ AcmeInit /\ RotationInit /\ AgentInit /\ CacheInit /\ UdpInit
  /\ BackupInit /\ CommandInit /\ ComposeInit /\ PreviewInit /\ SrvInit
  /\ DiscoveryInit /\ (part # "discovery" => follows = "etcd")
  /\ RobinInit /\ (part # "robin" => weight = [s \in Indices |-> 1])

PartsNext ==
  \/ Only("acme") /\ AcmeNext
  \/ Only("keys") /\ RotationNext
  \/ Only("agent") /\ AgentNext
  \/ Only("discovery") /\ DiscoveryNext
  \/ Only("cache") /\ CacheNext
  \/ Only("udp") /\ UdpNext
  \/ Only("backup") /\ BackupNext
  \/ Only("command") /\ CommandNext
  \/ Only("compose") /\ ComposeNext
  \/ Only("preview") /\ PreviewNext
  \/ Only("srv") /\ SrvNext
  \/ Only("robin") /\ RobinNext

partsVars == <<part, acmeVars, rotationVars, agentVars, discoveryVars, cacheVars, udpVars,
               backupVars, commandVars, composeVars, previewVars, srvVars, robinVars>>

PartsSpec == PartsInit /\ [][PartsNext]_partsVars

FairPartsSpec ==
  /\ PartsSpec
  /\ AcmeFairness /\ AgentFairness /\ DiscoveryFairness /\ CacheFairness
  /\ BackupFairness /\ CommandFairness /\ SrvFairness
=============================================================================
