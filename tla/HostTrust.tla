----------------------------- MODULE HostTrust -----------------------------
(***************************************************************************)
(* The trust ceremony: vaults and exported identities, the runtime trust   *)
(* bundle that both guards sign, its projection on a signer host, and the  *)
(* signer's start (nxms-host-bootstrap; bootstrap.rs, trust.rs and the     *)
(* vault files of nxms-transport; trust.rs and agent.rs of nxms-signer).   *)
(*                                                                         *)
(* Everything is files.  sign-bundle and materialize-local read their      *)
(* files in one step and write each file in another, one command per host  *)
(* at a time, which may die in between; the other commands are one step,   *)
(* as is write-to-temporary-and-rename.  The bundle is signed in place.    *)
(* A key is the number of its generation: what a signature or a vault      *)
(* decrypts to is cryptography and taken as correct.                       *)
(***************************************************************************)
EXTENDS Naturals, FiniteSets, Sequences

CONSTANTS
    GuardHosts,     \* hosts with the two required guard roles
    Local,          \* the signer host
    Issuer,         \* owner of the action-token issuer vault
    Epochs,         \* trust epochs
    MaxKeys,        \* bound: key generations of each owner's vault
    MaxBundles,     \* bound: bundles initialized
    NoFile          \* no bundle, no peers file

Hosts  == GuardHosts \cup {Local}
Owners == Hosts \cup {Issuer}

(* What guards sign, their signatures, and bundles.                        *)
Contents   == [epoch : Epochs, keys : [Owners -> Nat]]
Signatures == [by : GuardHosts, key : Nat, over : Contents]
Bundles    == [epoch : Epochs, keys : [Owners -> Nat], sigs : SUBSET Signatures]

ASSUME HostTrustConstants ==
    /\ IsFiniteSet(GuardHosts) /\ Cardinality(GuardHosts) = 2
    /\ Local \notin GuardHosts /\ Issuer \notin Hosts
    /\ MaxKeys \in [Owners -> Nat \ {0}]
    /\ NoFile \notin Bundles

VARIABLES
    vault,      \* vault[o]: the key in vault.bin, 0 without a vault
    made,       \* made[o]: keys generated for o so far
    exported,   \* exported[o]: the key in o's identity or issuer file, 0 if none
    bundle,     \* the runtime trust bundle file
    peers,      \* peers.json of the signer host
    pem,        \* action_token_pub.pem of the signer host
    op,         \* op[h]: what the command running on host h still has to do
    process,    \* the signer process
    approved,   \* history: approved[g]: what guard g's operator had signed
    rite,       \* history: bundles initialized, guards that signed, overlap
    raced       \* history: a trust file changed during the signer's start

trustFiles == <<vault, made, exported, bundle, peers, pem>>
past       == <<approved, rite, raced>>
trustVars  == <<trustFiles, op, process, past>>

NoCommand == [cmd |-> "idle"]
Down == [pc |-> "down"]

(* canonical_unsigned_json: what the signatures cover.                     *)
Unsigned(b) == [epoch |-> b.epoch, keys |-> b.keys]

(* sign: the guard's earlier signature is replaced.                        *)
Signed(b, g, k) ==
    [b EXCEPT !.sigs = {s \in @ : s.by # g} \cup {[by |-> g, key |-> k, over |-> Unsigned(b)]}]

(* validate: every host and the issuer are listed with a key.              *)
Validate(b) == b # NoFile /\ \A o \in Owners : b.keys[o] # 0

(* Mutated form: one guard is enough.                                      *)
AnyGuard(b) ==
    /\ Validate(b)
    /\ \E s \in b.sigs : s.key = b.keys[s.by] /\ s.over = Unsigned(b)

(* verify_guard_quorum: exactly one valid signature of each guard, made    *)
(* with the key that the bundle lists for it.                              *)
VerifyGuardQuorum(b) ==
    /\ Validate(b)
    /\ Cardinality(b.sigs) = 2
    /\ \A g \in GuardHosts : \E s \in b.sigs :
           s.by = g /\ s.key = b.keys[g] /\ s.over = Unsigned(b)

(* peer_book_for: everyone but the local host.                             *)
PeerBookFor(b) == [h \in GuardHosts |-> b.keys[h]]

TrustInit ==
    /\ vault = [o \in Owners |-> 0] /\ made = vault /\ exported = vault
    /\ bundle = NoFile /\ peers = NoFile /\ pem = 0
    /\ op = [h \in Hosts |-> NoCommand]
    /\ process = Down
    /\ approved = [g \in GuardHosts |-> {}]
    /\ rite = [inits |-> 0, signed |-> {}, overlap |-> FALSE]
    /\ raced = FALSE

-----------------------------------------------------------------------------
Starting == process.pc \notin {"down", "up"}
Touch == raced' = (raced \/ Starting)

LoadVault(o)     == vault[o]
LoadIssuerVault  == vault[Issuer]
StoreVault(o, k) == [vault EXCEPT ![o] = k]

(* The file is there, parses, and decrypts under the host's passphrase.    *)
Opens(k) == k # 0

(* A vault with new keys; refused when there is one.                       *)
NewVault(o) ==
    /\ LoadVault(o) = 0
    /\ made[o] < MaxKeys[o]
    /\ made' = [made EXCEPT ![o] = @ + 1]
    /\ vault' = StoreVault(o, made'[o])
    /\ Touch
    /\ UNCHANGED <<exported, bundle, peers, pem, op, process, approved, rite>>

GenerateHostVault(h) == NewVault(h)

GenerateIssuerVault == NewVault(Issuer)

(* The operator removes a vault, the only way to a new key.                *)
Retire(o) ==
    /\ LoadVault(o) # 0
    /\ made[o] < MaxKeys[o]
    /\ vault' = StoreVault(o, 0)
    /\ Touch
    /\ UNCHANGED <<made, exported, bundle, peers, pem, op, process, approved, rite>>

Exports(o, k) ==
    /\ Opens(k)
    /\ exported[o] # k
    /\ exported' = [exported EXCEPT ![o] = k]
    /\ UNCHANGED <<vault, made, bundle, peers, pem, op, process, past>>

ExportHostIdentity(h) == Exports(h, LoadVault(h))

ExportIssuer == Exports(Issuer, LoadIssuerVault)

-----------------------------------------------------------------------------
Begin(h, c) == op[h] = NoCommand /\ op' = [op EXCEPT ![h] = c]
End(h) == op' = [op EXCEPT ![h] = NoCommand]
Signing == {g \in GuardHosts : op[g].cmd = "bundle"}

FromHostIdentities(e) == [epoch |-> e, keys |-> exported, sigs |-> {}]

InitBundle(e) ==
    /\ rite.inits < MaxBundles
    /\ Validate(FromHostIdentities(e))
    /\ bundle' = FromHostIdentities(e)
    /\ rite' = [inits |-> rite.inits + 1, signed |-> {}, overlap |-> Signing # {}]
    /\ Touch
    /\ UNCHANGED <<vault, made, exported, peers, pem, op, process, approved>>

(* sign-bundle loads the file, signs and writes the whole file back.       *)
SignBundle(g) ==
    /\ Opens(LoadVault(g))
    /\ Validate(bundle)
    /\ Begin(g, [cmd |-> "bundle", bundle |-> Signed(bundle, g, LoadVault(g))])
    /\ approved' = [approved EXCEPT ![g] = @ \cup {Unsigned(bundle)}]
    /\ rite' = [rite EXCEPT !.overlap = @ \/ Signing # {}]
    /\ UNCHANGED <<trustFiles, process, raced>>

WriteBundle(g) ==
    /\ op[g].cmd = "bundle"
    /\ bundle' = op[g].bundle
    /\ rite' = [rite EXCEPT !.signed = @ \cup {g}]
    /\ Touch
    /\ End(g)
    /\ UNCHANGED <<vault, made, exported, peers, pem, process, approved>>

ValidateLocalKeys(b, k) == k = b.keys[Local]

(* materialize_runtime_trust_for_local: checks first, then two files.      *)
Materialize ==
    /\ VerifyGuardQuorum(bundle)
    /\ ValidateLocalKeys(bundle, LoadVault(Local))
    /\ Begin(Local, [cmd |-> "peers", bundle |-> bundle])
    /\ UNCHANGED <<trustFiles, process, past>>

WritePeers ==
    /\ op[Local].cmd = "peers"
    /\ peers' = PeerBookFor(op[Local].bundle)
    /\ op' = [op EXCEPT ![Local].cmd = "pem"]
    /\ Touch
    /\ UNCHANGED <<vault, made, exported, bundle, pem, process, approved, rite>>

WritePem ==
    /\ op[Local].cmd = "pem"
    /\ pem' = op[Local].bundle.keys[Issuer]
    /\ Touch
    /\ End(Local)
    /\ UNCHANGED <<vault, made, exported, bundle, peers, process, approved, rite>>

(* A command dies; files are replaced by a rename and never cut short.     *)
Dies(h) ==
    /\ op[h] # NoCommand
    /\ End(h)
    /\ UNCHANGED <<trustFiles, process, past>>

-----------------------------------------------------------------------------
(* SignerAgent::from_config, one step per file it reads; any failed check  *)
(* ends the process.                                                       *)
GoOn(ok, next) == process' = IF ok THEN next ELSE Down

LoadPeers ==
    /\ process = Down
    /\ peers # NoFile
    /\ process' = [pc |-> "keys", peers |-> peers]
    /\ raced' = FALSE
    /\ UNCHANGED <<trustFiles, op, approved, rite>>

LoadKeys ==
    /\ process.pc = "keys"
    /\ GoOn(Opens(LoadVault(Local)),
            [pc |-> "bundle", peers |-> process.peers, keys |-> LoadVault(Local)])
    /\ UNCHANGED <<trustFiles, op, past>>

(* verify_runtime_trust_projection_for_local, up to validate_local_keys.   *)
CheckBundle ==
    /\ process.pc = "bundle"
    /\ GoOn(VerifyGuardQuorum(bundle) /\ ValidateLocalKeys(bundle, LoadVault(Local)),
            [pc |-> "peers", peers |-> process.peers, keys |-> process.keys, bundle |-> bundle])
    /\ UNCHANGED <<trustFiles, op, past>>

(* Mutated form: any peers.json will do.                                   *)
PeersUnchecked == peers # NoFile

PeersMatch == peers = PeerBookFor(process.bundle)

CheckPeers ==
    /\ process.pc = "peers"
    /\ GoOn(PeersMatch, [process EXCEPT !.pc = "pem"])
    /\ UNCHANGED <<trustFiles, op, past>>

CheckPem ==
    /\ process.pc = "pem"
    /\ GoOn(pem = process.bundle.keys[Issuer], [process EXCEPT !.pc = "verifier"])
    /\ UNCHANGED <<trustFiles, op, past>>

(* from_signer_config reads the key file and then the bundle once more.    *)
LoadVerifierKey ==
    /\ process.pc = "verifier"
    /\ process' = [pc |-> "epoch", peers |-> process.peers, keys |-> process.keys,
                  bundle |-> process.bundle, key |-> pem]
    /\ UNCHANGED <<trustFiles, op, past>>

LoadVerifierEpoch ==
    /\ process.pc = "epoch"
    /\ GoOn(VerifyGuardQuorum(bundle),
            [pc |-> "up", peers |-> process.peers, keys |-> process.keys,
             bundle |-> process.bundle, key |-> process.key, epoch |-> bundle.epoch])
    /\ UNCHANGED <<trustFiles, op, past>>

Stop ==
    /\ process # Down
    /\ process' = Down
    /\ UNCHANGED <<trustFiles, op, approved, rite, raced>>

-----------------------------------------------------------------------------
CommandStep ==
    \/ \E h \in Hosts : GenerateHostVault(h) \/ ExportHostIdentity(h)
    \/ GenerateIssuerVault \/ ExportIssuer
    \/ \E o \in Owners : Retire(o)
    \/ \E e \in Epochs : InitBundle(e)
    \/ \E g \in GuardHosts : SignBundle(g) \/ WriteBundle(g)
    \/ Materialize \/ WritePeers \/ WritePem
    \/ \E h \in Hosts : Dies(h)

StartStep ==
    \/ LoadPeers \/ LoadKeys \/ CheckBundle \/ CheckPeers \/ CheckPem
    \/ LoadVerifierKey \/ LoadVerifierEpoch \/ Stop

TrustNext == CommandStep \/ StartStep

TrustSpec == TrustInit /\ [][TrustNext]_trustVars

-----------------------------------------------------------------------------
(* What a running signer trusts was signed by the operators of both        *)
(* guards, each with the key it lists for that guard, however their        *)
(* commands overlapped and whatever signatures the overlap lost.  And a    *)
(* ceremony whose commands did not overlap does end with a bundle that     *)
(* verifies, in whatever order and however often the guards signed.        *)
RunsUnderBothGuards ==
    /\ process.pc = "up" => \A g \in GuardHosts : Unsigned(process.bundle) \in approved[g]
    /\ rite.signed = GuardHosts /\ ~rite.overlap /\ (\A g \in GuardHosts : made[g] = 1) =>
           VerifyGuardQuorum(bundle)

(* Unless a trust file changed while the signer was starting, everything   *)
(* it runs with (peers, own key, token key, epoch) is the projection of    *)
(* one bundle: a materialization cut short between its two files, or an    *)
(* older projection, keeps the signer from starting.                       *)
StartsFromOneBundle ==
    process.pc = "up" /\ ~raced =>
        /\ process.peers = PeerBookFor(process.bundle)
        /\ process.keys = process.bundle.keys[Local]
        /\ process.key = process.bundle.keys[Issuer]
        /\ process.epoch = process.bundle.epoch

=============================================================================
