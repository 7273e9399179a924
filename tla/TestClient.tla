------------------------------ MODULE TestClient ------------------------------
(***************************************************************************)
(* The end-to-end test client of src/test/v2/client/test_client.go:      *)
(* NewTestClient, then one DisperseAndVerify: disperse a payload, read it *)
(* back from one relay and one validator set through the retrievers, then *)
(* from every relay the certificate names and every quorum it names, and  *)
(* compare each copy with the payload.  Every remote call (not under      *)
(* src/) fails or returns bytes that are the payload or are not; the      *)
(* certificate's relay keys and quorums are whatever the disperser gives. *)
(***************************************************************************)
EXTENDS Naturals, Sequences

CONSTANTS
    RelayIDs,       \* relay keys a certificate may name
    QuorumIDs,      \* quorums a certificate may name
    MaxKeys,        \* most relay keys, and most quorums, in a certificate
    MaxBlobSizes,   \* values of config.MaxBlobSize
    SRSNumbers      \* values of config.SRSNumberToLoad

\* The bytes a read returns, as compared with the payload by bytes.Equal.
Data == {"payload", "other"}

VARIABLES
    config,     \* the TestClientConfig fields the code reads
    pc,         \* "new", "disperse", "blobKey", "relayRetriever",
                \* "validatorRetriever", "relays", "commitment",
                \* "blockNumber", "validators", "done"
    ret,        \* "none" while running; "ok" (nil) or the error returned
    relayKeys,  \* the certificate's BlobCertificate.RelayKeys
    quorums,    \* the certificate's BlobHeader.QuorumNumbers
    i,          \* the index of the loop over relayKeys or over quorums
    reads       \* every copy read: <<source, bytes>>

vars == <<config, pc, ret, relayKeys, quorums, i, reads>>

SeqsOf(S) == UNION {[1..n -> S] : n \in 0..MaxKeys}

\* Lines 57-65: the configuration the caller passes in.
Init ==
    /\ config \in [keyPath : BOOLEAN, keyFileReadable : BOOLEAN,
                   keyVar : BOOLEAN, envHasKey : BOOLEAN,
                   maxBlobSize : MaxBlobSizes, srsNumberToLoad : SRSNumbers]
    /\ pc = "new" /\ ret = "none"
    /\ relayKeys = <<>> /\ quorums = <<>> /\ i = 1 /\ reads = {}

\* loadPrivateKey, lines 288-310: KeyPath wins over KeyVar; an unreadable
\* file, no KeyVar or an empty environment variable is an error.
LoadPrivateKey(c) ==
    IF c.keyPath THEN c.keyFileReadable ELSE c.keyVar /\ c.envHasKey

Fail(e) == pc' = "done" /\ ret' = e

(* NewTestClient, lines 66-285: SRSNumberToLoad defaults to MaxBlobSize / *)
(* 32 (lines 63-65, written into the caller's config); then the key, the  *)
(* signer, the SRS paths, the prover, the disperser client and accountant, *)
(* the Ethereum client, the verifiers, codec, relay and retrieval clients *)
(* are built in turn, and the first failure is returned.                  *)
NewTestClient ==
    /\ pc = "new"
    /\ config' = [config EXCEPT !.srsNumberToLoad =
                     IF @ = 0 THEN config.maxBlobSize \div 32 ELSE @]
    /\ IF ~LoadPrivateKey(config)
         THEN Fail("keyError")
         ELSE \/ Fail("constructError")
              \/ pc' = "disperse" /\ UNCHANGED ret
    /\ UNCHANGED <<relayKeys, quorums, i, reads>>

\* DispersePayload, lines 450-466 (called at 393): the certificate names
\* any relay keys and quorums.
Disperse ==
    /\ pc = "disperse"
    /\ \/ Fail("disperseError") /\ UNCHANGED <<relayKeys, quorums>>
       \/ /\ relayKeys' \in SeqsOf(RelayIDs) /\ quorums' \in SeqsOf(QuorumIDs)
          /\ pc' = "blobKey" /\ UNCHANGED ret
    /\ UNCHANGED <<config, i, reads>>

\* Lines 399-402: ComputeBlobKey.
BlobKey ==
    /\ pc = "blobKey"
    /\ \/ Fail("blobKeyError")
       \/ pc' = "relayRetriever" /\ UNCHANGED ret
    /\ UNCHANGED <<config, relayKeys, quorums, i, reads>>

(* One copy read from src and compared with the payload: the read or its *)
(* decoding fails, or it returns bytes; bytes other than the payload are   *)
(* "payloads do not match", the payload runs continue.                     *)
ReadFrom(src, continue) ==
    \/ Fail("readError") /\ UNCHANGED <<reads, i>>
    \/ \E d \in Data :
          /\ reads' = reads \cup {<<src, d>>}
          /\ IF d = "payload" THEN continue ELSE Fail("mismatch") /\ UNCHANGED i

\* Lines 404-411: GetPayload from a single relay.
RelayRetriever ==
    /\ pc = "relayRetriever"
    /\ ReadFrom(<<"relayRetriever", "any">>,
                pc' = "validatorRetriever" /\ UNCHANGED <<ret, i>>)
    /\ UNCHANGED <<config, relayKeys, quorums>>

\* Lines 413-420: GetPayload from a single quorum's validators.
ValidatorRetriever ==
    /\ pc = "validatorRetriever"
    /\ ReadFrom(<<"validatorRetriever", "any">>, pc' = "relays" /\ UNCHANGED <<ret, i>>)
    /\ UNCHANGED <<config, relayKeys, quorums>>

(* ReadBlobFromRelays, lines 469-497 (called at 423): GetBlob from each   *)
(* relay key of the certificate, DecodeBlob, compare.                     *)
ReadRelays_offByOne ==
    /\ pc = "relays"
    /\ IF i >= Len(relayKeys)
         THEN pc' = "commitment" /\ i' = 1 /\ UNCHANGED <<ret, reads>>
         ELSE ReadFrom(<<"relay", relayKeys[i]>>, i' = i + 1 /\ UNCHANGED <<pc, ret>>)
    /\ UNCHANGED <<config, relayKeys, quorums>>

ReadRelays ==
    /\ pc = "relays"
    /\ IF i > Len(relayKeys)
         THEN pc' = "commitment" /\ i' = 1 /\ UNCHANGED <<ret, reads>>
         ELSE ReadFrom(<<"relay", relayKeys[i]>>, i' = i + 1 /\ UNCHANGED <<pc, ret>>)
    /\ UNCHANGED <<config, relayKeys, quorums>>

\* Lines 428-432: BlobCommitmentsBindingToInternal.
Commitment ==
    /\ pc = "commitment"
    /\ \/ Fail("commitmentError")
       \/ pc' = "blockNumber" /\ UNCHANGED ret
    /\ UNCHANGED <<config, relayKeys, quorums, i, reads>>

\* Lines 508-511: GetCurrentBlockNumber, before the loop over quorums.
BlockNumber ==
    /\ pc = "blockNumber"
    /\ \/ Fail("blockNumberError")
       \/ pc' = "validators" /\ UNCHANGED ret
    /\ UNCHANGED <<config, relayKeys, quorums, i, reads>>

(* ReadBlobFromValidators, lines 513-540 (called at 435): GetBlob from    *)
(* each quorum of the certificate, DecodeBlob, compare; then nil (446).   *)
ReadValidators ==
    /\ pc = "validators"
    /\ IF i > Len(quorums)
         THEN Fail("ok") /\ UNCHANGED <<i, reads>>
         ELSE ReadFrom(<<"quorum", quorums[i]>>, i' = i + 1 /\ UNCHANGED <<pc, ret>>)
    /\ UNCHANGED <<config, relayKeys, quorums>>

Next ==
    \/ NewTestClient \/ Disperse \/ BlobKey \/ RelayRetriever
    \/ ValidatorRetriever \/ ReadRelays \/ Commitment \/ BlockNumber
    \/ ReadValidators

\* One goroutine calls the client and waits for each remote call.
Spec == Init /\ [][Next]_vars /\ WF_vars(Next)

-----------------------------------------------------------------------------
\* The copies DisperseAndVerify promises to have checked (lines 384-385):
\* the two retrievers, every relay of the certificate, every quorum of it.
Required ==
    {<<"relayRetriever", "any">>, <<"validatorRetriever", "any">>}
    \cup {<<"relay", relayKeys[k]>> : k \in DOMAIN relayKeys}
    \cup {<<"quorum", quorums[k]>> : k \in DOMAIN quorums}

\* DisperseAndVerify returns nil only if every copy it was asked to read was
\* read and equals the payload, and no copy it read differed: a relay or a
\* quorum serving other bytes cannot go unnoticed, whichever position it has
\* in the certificate's lists (the loops of ReadBlobFromRelays and
\* ReadBlobFromValidators).
EveryCopyMatched ==
    ret = "ok" =>
        /\ \A s \in Required : <<s, "payload">> \in reads
        /\ \A r \in reads : r[2] = "payload"

================================================================================
