------------------------------ MODULE MCBuckets ------------------------------
(***************************************************************************)
(* Accounts with one bucket, rich in what one control reads, or with two that  *)
(* name the same key. AWS fails one call, and one bucket or key changes.       *)
(***************************************************************************)
EXTENDS BucketControls

KeyReference(form, region) == [form |-> form, key |-> "k1", region |-> region]
Encrypted(algorithm, reference) == [algorithm |-> algorithm, reference |-> reference]

Plain ==
  [region |-> "eu", tags |-> {}, encryption |-> Missing, block |-> Missing,
   policy |-> Missing, grants |-> {"owner"}, ownership |-> "writer"]

Alone(s, flags) == [buckets |-> [b \in Buckets |-> IF b = "b1" THEN s ELSE Missing], shield |-> flags]
Pair(s, t) == [buckets |-> [b \in Buckets |-> IF b = "b1" THEN s ELSE t], shield |-> Missing]

\* What S3-001 and S3-002 read.
OpenAccounts ==
  {Alone([Plain EXCEPT !.policy = p, !.grants = g, !.block = f], a) :
     p \in {"public", "external"}, g \in {{"owner"}, {"owner", "everyone"}},
     f \in {Missing, {"ignore"}}, a \in {Missing, {"restrict"}}}
  \cup {Alone([Plain EXCEPT !.policy = "odd", !.grants = {"owner", "partner"}], Flags),
        Alone([Plain EXCEPT !.policy = "deny", !.grants = {"everyone"}, !.ownership = "enforced"], {})}

Secret(encryption) == [Plain EXCEPT !.tags = {"secret"}, !.encryption = encryption]
ArnOfKey == Encrypted("kms", KeyReference("arn", "eu"))
AliasOfKey == Encrypted("kms", KeyReference("alias", Missing))

\* What S3-004 and S3-900 read.
SecretAccounts ==
  {Alone(Secret(e), Missing) :
     e \in {Missing, ArnOfKey, Encrypted("kms", KeyReference("arn", "us")), Encrypted("kms", Missing),
            Encrypted("kms", KeyReference("bad", Missing)), Encrypted("aes", Missing),
            Encrypted("none", Missing)}}

PairedAccounts == {Pair(Secret(ArnOfKey), Secret(AliasOfKey))}

NoBuckets == [buckets |-> [b \in Buckets |-> Missing], shield |-> Missing]

MCAccounts == OpenAccounts \cup SecretAccounts \cup PairedAccounts \cup {NoBuckets}

\* Private, encrypted and blocked; or created again in another Region.
MCRewrites == {[Plain EXCEPT !.encryption = Encrypted("aes", Missing), !.block = Flags,
                             !.policy = "deny", !.ownership = "enforced"],
               [Plain EXCEPT !.region = "us"]}

MCKeyRegion == [k \in KeyIds |-> "eu"]
MCApprovals == [b \in Buckets |-> IF b = "b1" THEN {"partner"} ELSE {}]
MCDeclared == [b \in Buckets |-> IF b = "b1" THEN "neither" ELSE "harmless"]
=============================================================================
