------------------------------ MODULE Bootstrap ------------------------------
(***************************************************************************)
(* The list of addresses a node dials when it starts (node.rs, start;      *)
(* network/bootstrap.rs).  An address is the pair of the PeerId its /p2p/  *)
(* suffix names and the transport part; NoPeer stands for a missing        *)
(* suffix.                                                                 *)
(***************************************************************************)
EXTENDS Integers, SequencesExt

CONSTANTS NoPeer,             \* no /p2p/ suffix
          DEFAULT_BOOTSTRAPS, \* the addresses compiled in
          MAINTAINER_PUBKEY   \* the pinned key, or Placeholder

Placeholder == "zero"

(* dnsaddr_lookup: TXT values, in the order of the answer; any error is an *)
(* empty answer.                                                           *)
DnsaddrLookup(answer) == answer

MaxManifestAge == 90  \* days

(* fetch_signed_manifest: the entries, or none when the key is the         *)
(* placeholder, the signature is not that key's, or the manifest is past   *)
(* its expiry or too old.                                                  *)
FetchSignedManifest(m, key) ==
    IF /\ key # Placeholder
       /\ m.signer = key
       /\ m.expiresIn >= 0
       /\ m.age <= MaxManifestAge
    THEN m.bootstraps ELSE << >>

(* An address already in the list is not added again.                      *)
Merge(seeds, more) ==
    FoldLeft(LAMBDA acc, a : IF Contains(acc, a) THEN acc ELSE Append(acc, a), seeds, more)

(* The sources that stand on something: flags, cache, manifest, binary.    *)
Vouched(cli, cached, useDefaults, manifest) ==
    LET known == Merge(Merge(<< >>, cli), cached) IN
    IF ~useDefaults THEN known
    ELSE Merge(Merge(known, FetchSignedManifest(manifest, MAINTAINER_PUBKEY)),
               DEFAULT_BOOTSTRAPS)

(* Mutant of Seeds: DNS is always merged in.                               *)
SeedsWithDns(cli, cached, useDefaults, manifest, dns) ==
    Merge(Vouched(cli, cached, useDefaults, manifest),
          IF useDefaults THEN DnsaddrLookup(dns) ELSE << >>)

(* start: DNS, which is unsigned, only if there is nothing else.           *)
Seeds(cli, cached, useDefaults, manifest, dns) ==
    LET seeds == Vouched(cli, cached, useDefaults, manifest) IN
    IF useDefaults /\ seeds = << >> THEN Merge(seeds, DnsaddrLookup(dns)) ELSE seeds

(* parse_bootstrap_addr and the dial loop: addresses without a PeerId are  *)
(* skipped, every other one is dialled.                                    *)
Dialled(seeds) == SelectSeq(seeds, LAMBDA a : a[1] # NoPeer)
=============================================================================
