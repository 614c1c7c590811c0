------------------------------- MODULE Research -------------------------------
(***************************************************************************)
(* Research store of app/assistant.py.  Fetched pages are kept as documents *)
(* with a version number per URL; the job that used a page keeps a link to  *)
(* the version and the excerpt it was shown; the operator reviews versions  *)
(* and links.  One worker thread searches, fetches, saves and links for one *)
(* job at a time; reviews run in other threads in between.                  *)
(*                                                                         *)
(* Saving is one transaction, so the worker fills a draft of the store that *)
(* its commit publishes and a stop drops.  A content stands for a page's    *)
(* text, its hash and the excerpt cut from it; the words of a query are the *)
(* contents it matches; titles, ranking and the limit of six are left out.  *)
(***************************************************************************)
EXTENDS Naturals, Sequences

CONSTANTS
    Urls, Contents,
    Jobs,          \* jobs that ask for research
    Statuses,      \* review outcomes, of versions and of links
    Unreviewed,
    MaxDocuments,  \* bound on research_documents
    NoJob

ASSUME ResearchAssumption ==
    MaxDocuments \in Nat /\ NoJob \notin Jobs /\ Unreviewed \in Statuses

VARIABLES
    store,      \* documents, versions and the full-text index, as committed
    links,      \* research_evidence_links
    retrieval,  \* the worker thread: its job, query, matches and draft
    ran         \* jobs whose research stage has started; a job runs once

researchVars == <<store, links, retrieval, ran>>

\* research_documents and research_document_versions in id order; the index
\* holds document ids.
Documents == [url : Urls, content : Contents]
Versions == [document : Nat, no : Nat, hash : Contents, quality : Statuses]
Stores == [documents : Seq(Documents), versions : Seq(Versions), indexed : SUBSET Nat]
Links == [job : Jobs, document : Nat, version : Nat, excerpt : Contents, support : Statuses]

EmptyStore == [documents |-> <<>>, versions |-> <<>>, indexed |-> {}]
Idle == [at |-> "idle", job |-> NoJob, query |-> {}, matches |-> {}, draft |-> EmptyStore]

-----------------------------------------------------------------------------
(* The two joins.                                                           *)

UrlOf(s, v) == s.documents[s.versions[v].document].url
VersionsOf(s, url) == {v \in DOMAIN s.versions : UrlOf(s, v) = url}

\* Seeded fault: equal version numbers are not told apart.
NewerByNumber(s, w, v) == s.versions[w].no > s.versions[v].no

\* newer_v/newer_d of search_research: a later version, or the same version
\* number on a later document, as migrated databases have.
Newer(s, w, v) ==
    \/ s.versions[w].no > s.versions[v].no
    \/ /\ s.versions[w].no = s.versions[v].no
       /\ s.versions[w].document > s.versions[v].document

\* What search_research shows of a URL.
Shown(s, url) ==
    {v \in VersionsOf(s, url) : ~ \E w \in VersionsOf(s, url) : Newer(s, w, v)}

\* search_research
Found(s, query) ==
    {v \in DOMAIN s.versions :
        /\ s.versions[v].document \in s.indexed
        /\ s.documents[s.versions[v].document].content \in query
        /\ v \in Shown(s, UrlOf(s, v))}

-----------------------------------------------------------------------------
(* save_research_documents, per page.                                       *)

Stored(s, page) ==
    \E v \in VersionsOf(s, page.url) : s.versions[v].hash = page.content

\* COALESCE(MAX(version_no), 0)
IsPrevious(s, url, n) ==
    IF VersionsOf(s, url) = {} THEN n = 0
    ELSE /\ \E v \in VersionsOf(s, url) : s.versions[v].no = n
         /\ \A v \in VersionsOf(s, url) : s.versions[v].no <= n

\* The insert trigger keeps the index.
WithPage(s, page, previous) ==
    [documents |-> Append(s.documents, page),
     versions |-> Append(s.versions,
        [document |-> Len(s.documents) + 1, no |-> previous + 1,
         hash |-> page.content, quality |-> Unreviewed]),
     indexed |-> s.indexed \cup {Len(s.documents) + 1}]

\* Seeded fault: a page that changed replaces the text of its document.
SavePageInPlace(page) ==
    /\ retrieval.at = "saving"
    /\ \E d \in DOMAIN retrieval.draft.documents :
          /\ retrieval.draft.documents[d].url = page.url
          /\ retrieval' = [retrieval EXCEPT !.draft.documents[d] = page]
    /\ UNCHANGED <<store, links, ran>>

SavePage(page) ==
    /\ retrieval.at = "saving"
    /\ Len(retrieval.draft.documents) < MaxDocuments
    /\ ~ Stored(retrieval.draft, page)
    /\ \E n \in 0 .. Len(retrieval.draft.versions) :
          /\ IsPrevious(retrieval.draft, page.url, n)
          /\ retrieval' = [retrieval EXCEPT !.draft = WithPage(@, page, n)]
    /\ UNCHANGED <<store, links, ran>>

-----------------------------------------------------------------------------
(* The research stage of a job: build_context, then link_research_evidence. *)

Search(j, query) ==
    /\ retrieval.at = "idle" /\ j \notin ran
    /\ retrieval' = [at |-> IF Found(store, query) = {} THEN "fetching" ELSE "found",
                     job |-> j, query |-> query, matches |-> Found(store, query),
                     draft |-> EmptyStore]
    /\ ran' = ran \cup {j}
    /\ UNCHANGED <<store, links>>

\* The broker has answered, with any pages or none.
Fetch ==
    /\ retrieval.at = "fetching"
    /\ retrieval' = [retrieval EXCEPT !.at = "saving", !.draft = store]
    /\ UNCHANGED <<store, links, ran>>

\* The transaction commits and the search is repeated.
CommitPages ==
    /\ retrieval.at = "saving"
    /\ store' = retrieval.draft
    /\ retrieval' = [retrieval EXCEPT !.at = "found", !.draft = EmptyStore,
                                      !.matches = Found(store', retrieval.query)]
    /\ UNCHANGED <<links, ran>>

Link(s, v) ==
    [job |-> retrieval.job, document |-> s.versions[v].document, version |-> v,
     excerpt |-> s.documents[s.versions[v].document].content, support |-> Unreviewed]

LinkEvidence ==
    /\ retrieval.at = "found"
    /\ links' = links \cup {Link(store, v) : v \in retrieval.matches}
    /\ retrieval' = Idle
    /\ UNCHANGED <<store, ran>>

\* The operator's reviews wait for the worker's write transaction.
SetQuality(v, status) ==
    /\ retrieval.at # "saving"
    /\ v \in DOMAIN store.versions
    /\ store' = [store EXCEPT !.versions[v].quality = status]
    /\ UNCHANGED <<links, retrieval, ran>>

SetSupport(link, status) ==
    /\ retrieval.at # "saving"
    /\ link \in links
    /\ links' = (links \ {link}) \cup {[link EXCEPT !.support = status]}
    /\ UNCHANGED <<store, retrieval, ran>>

ResearchNext ==
    \/ \E j \in Jobs, query \in SUBSET Contents : Search(j, query)
    \/ Fetch \/ CommitPages \/ LinkEvidence
    \/ \E page \in Documents : SavePage(page)
    \/ \E v \in DOMAIN store.versions, status \in Statuses : SetQuality(v, status)
    \/ \E link \in links, status \in Statuses : SetSupport(link, status)

-----------------------------------------------------------------------------
(* A citation keeps resolving: the version a link names still exists, is a   *)
(* version of the link's document, and has the text the excerpt was cut     *)
(* from, however often the page has changed since                           *)
(* (resolve_evidence_link_version).                                         *)
EvidenceResolves ==
    \A l \in links :
        /\ l.version \in DOMAIN store.versions
        /\ store.versions[l.version].document = l.document
        /\ l.document \in DOMAIN store.documents
        /\ store.documents[l.document].content = l.excerpt
        /\ store.versions[l.version].hash = l.excerpt

\* A search shows one version of each URL, the page stored last, also where a
\* migration gave several documents of the URL the same version number.
LatestIsShown ==
    \A url \in Urls : VersionsOf(store, url) # {} =>
        \E v \in VersionsOf(store, url) :
            /\ Shown(store, url) = {v}
            /\ \A w \in VersionsOf(store, url) :
                  store.versions[w].document <= store.versions[v].document
=============================================================================
