----------------------------- MODULE ImagePull -----------------------------
(***************************************************************************)
(* Acquisition of an image from a registry (container/registry.py,         *)
(* container/image.py, acquire_image): one client resolves a reference, an *)
(* index or a manifest, to a manifest and fetches its config, the attestation *)
(* that refers to it and its layers, through the local cache and from a    *)
(* registry whose answers fail, are refused or are not what was asked for. *)
(* Meanwhile the tag moves, attestations are attached and the cache is pruned. *)
(*                                                                         *)
(* Content and its digest are one value; Junk is a body that is not JSON and *)
(* of no digest that is asked for.                                         *)
(***************************************************************************)
EXTENDS Naturals, Sequences, FiniteSets

CONSTANTS
    Manifests,   \* manifests of images and of attestations
    Indexes,     \* indexes (manifest lists)
    Blobs,       \* configs, layers and envelopes
    Tag,         \* a tag
    Releases,    \* the documents that are pushed under it
    Pulled,      \* the references that are pulled
    Junk,
    Unknown,     \* nothing
    ChildOf,     \* ChildOf[i]: the manifest of index i for the platform, or Unknown
    ConfigOf,    \* ConfigOf[m]: its config blob
    LayersOf,    \* LayersOf[m]: its layers, of an attestation its envelopes
    AttestedBy,  \* AttestedBy[m]: the attestation that may be attached to m, or Unknown
    Retries      \* _RETRIES

Documents == Manifests \cup Indexes
References == Documents \cup {Tag}

\* The fallback tag sha256-<hex>.att of a manifest, and its list of referrers.
FallbackTag(m) == <<"att", m>>
ListOf(m)      == <<"referrers", m>>
FallbackTags == {FallbackTag(m) : m \in Manifests}
Lists        == {ListOf(m) : m \in Manifests}

ASSUME PullAssumption ==
    /\ Retries \in Nat
    /\ Releases \subseteq Documents /\ Pulled \subseteq References
    /\ ChildOf \in [Indexes -> Manifests \cup {Unknown}]
    /\ ConfigOf \in [Manifests -> Blobs] /\ LayersOf \in [Manifests -> Seq(Blobs)]
    /\ AttestedBy \in [Manifests -> Manifests \cup {Unknown}]
    /\ Manifests \cap Indexes = {}
    /\ Tag \notin Documents /\ Documents \cap Blobs = {} /\ FallbackTags \cap References = {}
    \* An attestation names the digest of what it attests: it cannot attest itself.
    /\ \A m \in Manifests : AttestedBy[m] # m
    /\ {Junk, Unknown} \cap (References \cup Blobs) = {}

VARIABLES
    tagged,      \* what the registry has under the tag
    published,   \* what it ever had
    attached,    \* the manifests that have their attestation
    manifests,   \* manifests[ref]: the cache entry registry-manifest:...@ref
    referrers,   \* referrers[m]: the cache entry registry-referrers:...@m
    cached,      \* the blobs in the cache
    token,       \* the client has a token the registry accepts, or needs none
    pull         \* the pull that runs or ran last

registryVars == <<tagged, published, attached>>
pullVars == <<registryVars, manifests, referrers, cached, token, pull>>

Named == References \cup FallbackTags
Wanted == Named \cup Lists \cup Blobs \cup {Unknown}
Answers == Documents \cup (SUBSET Manifests) \cup Blobs \cup {Junk, Unknown}
Attempts == 0 .. Retries

Pull == [at : {"idle", "lookup", "request", "check", "done", "failed"},
         part : {"image", "config", "referrers", "fallback", "attestation", "envelopes", "layers"},
         ref : References \cup {Unknown},
         want : Wanted,
         reply : Answers,
         hit : BOOLEAN,
         attempt : Attempts,
         offline : BOOLEAN,
         manifest : Manifests \cup {Unknown},
         config : Blobs \cup {Unknown},
         attestation : Manifests \cup {Unknown},
         todo : Seq(Blobs),
         layers : Seq(Blobs)]

PullTypeOK ==
    /\ tagged \in Documents \cup {Unknown} /\ published \subseteq Documents /\ attached \subseteq Manifests
    /\ manifests \in [Named -> Documents \cup {Junk, Unknown}]
    /\ referrers \in [Manifests -> (SUBSET Manifests) \cup {Unknown}]
    /\ cached \subseteq Blobs
    /\ token \in BOOLEAN
    /\ pull \in Pull

NoPull ==
    [at |-> "idle", part |-> "image", ref |-> Unknown, want |-> Unknown, reply |-> Unknown, hit |-> FALSE,
     attempt |-> 0, offline |-> FALSE,
     manifest |-> Unknown, config |-> Unknown, attestation |-> Unknown, todo |-> <<>>, layers |-> <<>>]

PullInit ==
    /\ tagged = Unknown /\ published = {} /\ attached = {}
    /\ manifests = [r \in Named |-> Unknown]
    /\ referrers = [m \in Manifests |-> Unknown]
    /\ cached = {}
    /\ token = FALSE
    /\ pull = NoPull

PullAt(step) == pull.at = step
Pulling == pull.at \in {"lookup", "request", "check"}
-----------------------------------------------------------------------------
(* Around a pull *)

\* A push moves the tag.
PushTag ==
    /\ \E d \in Releases : tagged' = d /\ published' = published \cup {d}
    /\ UNCHANGED <<attached, manifests, referrers, cached, token, pull>>

\* Somebody attaches the attestation (sorb attest --attach, cosign).
AttachAttestation ==
    /\ \E m \in Manifests \ attached : AttestedBy[m] # Unknown /\ attached' = attached \cup {m}
    /\ UNCHANGED <<tagged, published, manifests, referrers, cached, token, pull>>

TokenExpires ==
    /\ Pulling /\ token /\ token' = FALSE
    /\ UNCHANGED <<registryVars, manifests, referrers, cached, pull>>

\* sorb cache prune: some entry goes.
EvictImage ==
    /\ ~Pulling
    /\ \/ \E r \in Named : manifests' = [manifests EXCEPT ![r] = Unknown] /\ UNCHANGED <<referrers, cached>>
       \/ \E m \in Manifests : referrers' = [referrers EXCEPT ![m] = Unknown] /\ UNCHANGED <<manifests, cached>>
       \/ \E b \in Blobs : cached' = cached \ {b} /\ UNCHANGED <<manifests, referrers>>
    /\ pull' = NoPull
    /\ UNCHANGED <<registryVars, token>>

\* resolve() of a new client, with the reference's digest or its tag.
StartPull(ref, offline) ==
    /\ ~Pulling
    /\ pull' = [NoPull EXCEPT !.at = "lookup", !.ref = ref, !.want = ref, !.offline = offline]
    /\ token' \in BOOLEAN
    /\ UNCHANGED <<registryVars, manifests, referrers, cached>>
-----------------------------------------------------------------------------
(* fetch_manifest, fetch_blob and referrers: the cache first *)

WantsBlob == pull.part \in {"config", "envelopes", "layers"}
WantsList == pull.part = "referrers"
WantsDocument == ~WantsBlob /\ ~WantsList

CacheEntry ==
    CASE WantsBlob -> IF pull.want \in cached THEN pull.want ELSE Unknown
      [] WantsList -> referrers[pull.manifest]
      [] WantsDocument -> manifests[pull.want]

Ask(p, part, want) ==
    [p EXCEPT !.at = "lookup", !.part = part, !.want = want, !.reply = Unknown, !.hit = FALSE, !.attempt = 0]
Stop(p, at) ==
    [p EXCEPT !.at = at, !.want = Unknown, !.reply = Unknown, !.hit = FALSE, !.attempt = 0]

\* The next layer (blob_opener), after whatever was found out of attestations.
AskLayer(p) ==
    IF p.todo = <<>> THEN Stop(p, "done")
    ELSE [Ask(p, "layers", Head(p.todo)) EXCEPT !.todo = Tail(@)]
Layers(p) == AskLayer([p EXCEPT !.todo = LayersOf[p.manifest]])
AskEnvelope(p) ==
    IF p.todo = <<>> THEN Layers(p)
    ELSE [Ask(p, "envelopes", Head(p.todo)) EXCEPT !.todo = Tail(@)]

\* _discover_attestations passes over what fails; referrers() falls back to
\* the tag.
FailPart ==
    CASE pull.part \in {"image", "config", "layers"} -> Stop(pull, "failed")
      [] pull.part = "referrers" -> Ask(pull, "fallback", FallbackTag(pull.manifest))
      [] pull.part \in {"fallback", "attestation", "envelopes"} -> Layers(pull)

CacheHit ==
    /\ PullAt("lookup") /\ CacheEntry # Unknown
    /\ pull' = [pull EXCEPT !.at = "check", !.reply = CacheEntry, !.hit = TRUE]
    /\ UNCHANGED <<registryVars, manifests, referrers, cached, token>>

CacheMiss ==
    /\ PullAt("lookup") /\ CacheEntry = Unknown
    /\ pull' = IF pull.offline THEN FailPart ELSE [pull EXCEPT !.at = "request"]
    /\ UNCHANGED <<registryVars, manifests, referrers, cached, token>>
-----------------------------------------------------------------------------
(* _request *)

\* A 401 to the first attempt starts the challenge flow, which may fail; to a
\* later attempt it is an error like any other.
Unauthorized ==
    /\ PullAt("request") /\ ~token
    /\ \/ /\ pull.attempt = 0 /\ Retries > 0
          /\ token' = TRUE
          /\ pull' = [pull EXCEPT !.attempt = 1]
       \/ pull' = FailPart /\ UNCHANGED token
    /\ UNCHANGED <<registryVars, manifests, referrers, cached>>

\* Mutant: the attempts start again.
RetryForEver ==
    /\ PullAt("request")
    /\ pull' = [pull EXCEPT !.attempt = IF @ < Retries THEN @ + 1 ELSE 0]
    /\ UNCHANGED <<registryVars, manifests, referrers, cached, token>>

\* 5xx or a transport error; the loop ends after 1 + _RETRIES attempts.
TryAgain ==
    /\ PullAt("request")
    /\ pull' = IF pull.attempt < Retries THEN [pull EXCEPT !.attempt = @ + 1] ELSE FailPart
    /\ UNCHANGED <<registryVars, manifests, referrers, cached, token>>

\* 404 and the other 4xx.
RequestRefused ==
    /\ PullAt("request") /\ token
    /\ pull' = FailPart
    /\ UNCHANGED <<registryVars, manifests, referrers, cached, token>>

AttestationOf(m) == IF m \in attached THEN {AttestedBy[m]} ELSE {}

\* The bodies a 200 may have: the content, another document, none at all.
Bodies ==
    CASE WantsBlob -> {pull.want, Junk}
      [] WantsList -> {AttestationOf(pull.manifest), {}, Junk}
      [] pull.part = "fallback" -> AttestationOf(pull.manifest) \cup {Junk}
      [] pull.part \in {"image", "attestation"} ->
            IF pull.want = Tag THEN {tagged, Junk} \ {Unknown} ELSE {pull.want} \cup Releases

\* 200.  A manifest is cached under the reference before it is looked at, a
\* list of referrers if it is one.
Answered ==
    /\ PullAt("request") /\ token
    /\ \E body \in Bodies :
          /\ pull' = [pull EXCEPT !.at = "check", !.reply = body]
          /\ manifests' = IF WantsDocument THEN [manifests EXCEPT ![pull.want] = body] ELSE manifests
          /\ referrers' = IF WantsList /\ body # Junk THEN [referrers EXCEPT ![pull.manifest] = body]
                          ELSE referrers
    /\ UNCHANGED <<registryVars, cached, token>>
-----------------------------------------------------------------------------
(* What was fetched *)

\* A digest reference must be answered with that document; a tag, with JSON.
Acceptable ==
    /\ pull.reply \in Documents
    /\ pull.want \in Documents => pull.reply = pull.want

\* An index leads to the manifest of the platform, a manifest to its config,
\* an attestation to its envelopes.
CheckDocument ==
    /\ PullAt("check") /\ WantsDocument /\ Acceptable
    /\ manifests' = [manifests EXCEPT ![pull.reply] = pull.reply]
    /\ pull' =
         CASE pull.part # "image" ->
                IF pull.reply \in Indexes THEN Layers(pull)
                ELSE AskEnvelope([pull EXCEPT !.todo = LayersOf[pull.reply], !.attestation = pull.reply])
           [] pull.part = "image" /\ pull.reply \in Manifests ->
                [Ask(pull, "config", ConfigOf[pull.reply]) EXCEPT !.manifest = pull.reply]
           [] pull.part = "image" /\ pull.reply \in Indexes ->
                IF ChildOf[pull.reply] = Unknown THEN FailPart ELSE Ask(pull, "image", ChildOf[pull.reply])
    /\ UNCHANGED <<registryVars, referrers, cached, token>>

\* The list leads to the attestation.  An empty one leads to the tag only when
\* it comes from the registry: from the cache it is the answer.
CheckList ==
    /\ PullAt("check") /\ WantsList /\ pull.reply # Junk
    /\ pull' = IF pull.reply # {} THEN Ask(pull, "attestation", CHOOSE a \in pull.reply : TRUE)
               ELSE IF pull.hit THEN Layers(pull)
               ELSE Ask(pull, "fallback", FallbackTag(pull.manifest))
    /\ UNCHANGED <<registryVars, manifests, referrers, cached, token>>

\* The config comes first; then the referrers, unless offline; then the layers.
AfterBlob ==
    CASE pull.part = "config" ->
            LET p == [pull EXCEPT !.config = pull.reply] IN
            IF pull.offline THEN Layers(p) ELSE Ask(p, "referrers", ListOf(p.manifest))
      [] pull.part = "envelopes" -> AskEnvelope(pull)
      [] pull.part = "layers" -> AskLayer([pull EXCEPT !.layers = Append(@, pull.reply)])

\* Mutant: what came is used and not stored.
UseBlob ==
    /\ PullAt("check") /\ WantsBlob /\ pull.reply = pull.want
    /\ pull' = AfterBlob
    /\ UNCHANGED <<registryVars, manifests, referrers, cached, token>>

CheckBlob ==
    /\ PullAt("check") /\ WantsBlob /\ pull.reply = pull.want
    /\ pull' = AfterBlob
    /\ cached' = cached \cup {pull.want}
    /\ UNCHANGED <<registryVars, manifests, referrers, token>>

CheckFails ==
    /\ PullAt("check")
    /\ \/ WantsBlob /\ pull.reply # pull.want
       \/ WantsList /\ pull.reply = Junk
       \/ WantsDocument /\ ~Acceptable
    /\ pull' = FailPart
    /\ UNCHANGED <<registryVars, manifests, referrers, cached, token>>

PullStep ==
    \/ CacheHit \/ CacheMiss
    \/ Unauthorized \/ TryAgain \/ RequestRefused \/ Answered
    \/ CheckDocument \/ CheckList \/ CheckBlob \/ CheckFails

PullNext ==
    \/ PushTag \/ AttachAttestation \/ TokenExpires \/ EvictImage
    \/ \E ref \in Pulled, offline \in BOOLEAN : StartPull(ref, offline)
    \/ PullStep

PullSpec == PullInit /\ [][PullNext]_pullVars /\ WF_pullVars(PullStep)
-----------------------------------------------------------------------------

\* A pull that succeeds has one image: a manifest that the reference named at
\* some time, its config, its layers in order and no attestation but its own,
\* whatever the cache held and the registry answered (RegistryClient.resolve,
\* acquire_image).
NamedBy(ref) == IF ref = Tag THEN published ELSE {ref}
ManifestOf(d) == IF d \in Indexes THEN ChildOf[d] ELSE d
PulledIsPublished ==
    PullAt("done") =>
        /\ pull.manifest \in {ManifestOf(d) : d \in NamedBy(pull.ref)}
        /\ pull.config = ConfigOf[pull.manifest]
        /\ pull.layers = LayersOf[pull.manifest]
        /\ pull.attestation # Unknown => {pull.attestation} = AttestationOf(pull.manifest)

\* The cache can then answer the same pull offline: every reference on the way
\* leads to the image (fetch_manifest's two entries, fetch_blob).
CachedManifest(ref) ==
    LET d == manifests[ref] IN
    IF d \in Indexes THEN manifests[ChildOf[d]] ELSE d
PulledWorksOffline ==
    PullAt("done") =>
        /\ CachedManifest(pull.ref) = pull.manifest
        /\ manifests[pull.manifest] = pull.manifest
        /\ {pull.config} \cup {pull.layers[i] : i \in 1 .. Len(pull.layers)} \subseteq cached

\* What a pull returns was published under its reference, and the cache holds
\* all of it.
PulledIsWhole == PulledIsPublished /\ PulledWorksOffline

\* Every pull ends, whatever the registry does (the loop of _request).
PullsEnd == Pulling ~> PullAt("done") \/ PullAt("failed")
=============================================================================
