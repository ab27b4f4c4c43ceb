------------------------ MODULE FeatureStoreRefinement ------------------------
(***************************************************************************)
(* The hashes of FdsEventPipeline as an implementation of                  *)
(* FeatureStoreSpec.                                                       *)
(***************************************************************************)
EXTENDS FdsEventPipeline

Store == INSTANCE FeatureStoreSpec WITH
    known <- {e \in Entity : store[e].live},
    keywords <- [e \in Entity |-> store[e].kw],
    app <- [e \in Entity |-> store[e].app],
    sum <- [e \in Entity |-> store[e].sum]

\* sync_from_event reads a hash, computes and writes it back in separate Redis
\* commands, any of which may fail, and any record may be replayed after a
\* crash.  As long as one gateway writes, with no PUT and no key expiry, every
\* step of it is one whole event folded into the store, or nothing.
StoreIsAtomic == Store!Spec
===============================================================================
