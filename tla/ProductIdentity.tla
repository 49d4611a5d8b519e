---------------------------- MODULE ProductIdentity ----------------------------
(****************************************************************************)
(* Which product an offer belongs to (src/core/store.js,                    *)
(* src/core/identity-review.js, and the identity part of                    *)
(* src/core/pipeline.js and src/core/catalog.js).                           *)
(*                                                                          *)
(* A crawl matches a listing of a page it has not seen to a product by      *)
(* barcode, then SKU, then model, or makes a product; it links the product  *)
(* to the catalog entry of the listing's model, writes the offer, and       *)
(* creates its events.  Each is a statement of its own, so a kill or a      *)
(* failed write may fall between any two of them.  The user merges and      *)
(* splits products, each in one transaction; the crawl does not await in    *)
(* the middle of a listing, so these come between listings.                 *)
(*                                                                          *)
(* Abstractions.  A listing is what identifies it; a raw and a normalised   *)
(* SKU are one value, the brand is compared without regard to case in the   *)
(* code.  A page is one (source, url) of offers.  A listing may be followed *)
(* by an event or not, whatever its kind.  Catalog entries are named by the *)
(* model they stand for, and their evidence and aliases are left out.       *)
(****************************************************************************)
EXTENDS Naturals, FiniteSets

CONSTANTS
    Pages,          \* pages that carry an offer
    Listings,       \* what a page may show, as a row of the fields below
    Catalogued,     \* models extractModel knows as a catalog code
    None,           \* NULL
    MaxProducts,    \* bound: products ever inserted
    MaxFaults       \* bound: listings broken off

Fields == {"barcode", "sku", "model", "variant", "brand"}
Models == {l.model : l \in Listings} \ {None}

ASSUME IdentityAssumption ==
    /\ \A l \in Listings : l = [f \in Fields |-> l[f]]
    /\ Catalogued \subseteq Models
    /\ MaxProducts \in Nat
    /\ MaxFaults \in Nat

NoProduct == 0
Products == 1 .. MaxProducts
Values == {l[f] : l \in Listings, f \in Fields} \cup {None}

VARIABLES
    last,           \* the highest id of products ever given (AUTOINCREMENT)
    known,          \* ids of the rows of products
    row,            \* their identifying columns
    column,         \* products.catalog_product_id
    link,           \* product_catalog_links.catalog_product_id
    product,        \* offers.product_id, by page
    events,         \* events, as [page, product]
    placed,         \* history: how a page's offer came to its product
    evidence,       \* history: the listing the offer was made from
    torn,           \* history: products whose link was written and column not
    faults          \* listings broken off so far

rowVars == <<last, known, row>>
catalogVars == <<column, link>>
history == <<placed, evidence>>
vars == <<rowVars, catalogVars, product, events, history, torn, faults>>

NoRow == [f \in Fields |-> None]

\* How an offer came to its product; the last by a merge or a split.
Placements == {"none", "new", "barcode", "sku", "model", "user"}

Init ==
    /\ last = 0
    /\ known = {}
    /\ row = [p \in Products |-> NoRow]
    /\ column = [p \in Products |-> None]
    /\ link = [p \in Products |-> None]
    /\ product = [g \in Pages |-> NoProduct]
    /\ events = {}
    /\ placed = [g \in Pages |-> "none"]
    /\ evidence = [g \in Pages |-> NoRow]
    /\ torn = {}
    /\ faults = 0

OffersOf(p) == {g \in Pages : product[g] = p}

(****************************************************************************)
(* Matching.                                                                *)
(****************************************************************************)
\* Two values do not conflict: one is missing or they are equal.
Compatible(x, y) == x = None \/ y = None \/ x = y

Only(S) == IF Cardinality(S) = 1 THEN S ELSE {}

ByBarcode(l) == {p \in known : l.barcode # None /\ row[p].barcode = l.barcode}

BySku(l) == Only({p \in known :
    /\ l.sku # None
    /\ row[p].sku = l.sku
    /\ Compatible(row[p].model, l.model)
    /\ Compatible(row[p].brand, l.brand)})

\* Mutated form of SameModel: conflicting SKUs are not told apart.
SameModelAnySku(l) == {p \in known :
    /\ l.model # None
    /\ row[p].model = l.model
    /\ row[p].variant = l.variant}

\* Products of the listing's model and variant, without a conflicting SKU.
SameModel(l) == {p \in known :
    /\ l.model # None
    /\ row[p].model = l.model
    /\ row[p].variant = l.variant
    /\ Compatible(row[p].sku, l.sku)}

\* One candidate of the listing's brand: a single candidate of another brand is
\* no match, and several are narrowed down by the brand if the listing has one.
ByModel(l) == Only({p \in SameModel(l) : Compatible(row[p].brand, l.brand)})

\* The match of a listing, in the order of priority.
Match(l) ==
    IF ByBarcode(l) # {} THEN [by |-> "barcode", products |-> ByBarcode(l)]
    ELSE IF BySku(l) # {} THEN [by |-> "sku", products |-> BySku(l)]
    ELSE [by |-> "model", products |-> ByModel(l)]

\* Missing fields are filled in; COALESCE(r, s).
Enriched(r, s) == [f \in Fields |-> IF r[f] = None THEN s[f] ELSE r[f]]

(****************************************************************************)
(* processListing, whole or broken off, and the start of the service.       *)
(****************************************************************************)
\* Mutated form of Owner: a known page is matched anew.
OwnerAnew(g, l) == Match(l)

\* The products a listing may belong to: that of its page's offer, which may
\* be the user's decision, or what it matches.
Owner(g, l) ==
    IF product[g] # NoProduct THEN [by |-> placed[g], products |-> {product[g]}]
    ELSE Match(l)

\* The catalog code of a listing or a row (catalogIdentity).  Its second look, at the title,
\* finds nothing: a listing without a model has none in its title (normalizeModel), and the
\* backfill reads rows with a model.
Code(l) == IF l.model \in Catalogued THEN l.model ELSE None

\* Rows backfillCatalog repairs: without a column, with a model it knows, with
\* an offer.
Unlinked == {p \in known :
    /\ column[p] = None
    /\ Code(row[p]) # None
    /\ OffersOf(p) # {}}

\* findOrCreateProduct: the matched row r is filled in, or the listing is the row.
MatchedRow(r, l, by) == IF by = "new" THEN l ELSE Enriched(r, l)

\* The last statement of linkProductToCatalog: the SKU if the row has none.
LinkedRow(r, l) == [r EXCEPT !.sku = IF @ = None THEN l.sku ELSE @]

\* processListing of listing l of page g for product p, as far as it comes: the
\* product ("matched"), the link ("halfway"), the column ("linked"), the offer and
\* the events for what computeOfferEvents returned ("written").
\* insertOffer is for a new page; updateOffer leaves the product alone.  Events
\* lost between the offer and their creation are as if there had been none.
Write(g, l, p, by, reached) ==
    LET fresh == product[g] = NoProduct
        coded == Code(l) # None
        matched == IF fresh THEN MatchedRow(row[p], l, by) ELSE row[p]
        linked == coded /\ reached \in {"linked", "written"}
    IN  /\ row' = [row EXCEPT ![p] = IF linked THEN LinkedRow(matched, l) ELSE matched]
        /\ link' = [link EXCEPT ![p] =
                IF coded /\ reached # "matched" THEN Code(l) ELSE @]
        /\ column' = [column EXCEPT ![p] = IF linked THEN Code(l) ELSE @]
        /\ IF reached = "written" /\ fresh
           THEN /\ product' = [product EXCEPT ![g] = p]
                /\ placed' = [placed EXCEPT ![g] = by]
                /\ evidence' = [evidence EXCEPT ![g] = IF by = "barcode" THEN NoRow ELSE l]
           ELSE UNCHANGED <<product, history>>
        /\ \/ reached = "written" /\ events' = events \cup {[page |-> g, product |-> p]}
           \/ UNCHANGED events
        /\ torn' = IF ~coded \/ reached = "matched" THEN torn
                   ELSE IF column'[p] = Code(l) THEN torn \ {p} ELSE torn \cup {p}

\* A listing is written for a product that owns it, or for a new one.
Process(g, l, reached) ==
    LET owner == Owner(g, l) IN
    \/ /\ UNCHANGED <<last, known>>
       /\ \E p \in owner.products : Write(g, l, p, owner.by, reached)
    \/ /\ owner.products = {}
       /\ last < MaxProducts
       /\ last' = last + 1
       /\ known' = known \cup {last'}
       /\ Write(g, l, last', "new", reached)

ProcessListing ==
    /\ \E g \in Pages, l \in Listings : Process(g, l, "written")
    /\ UNCHANGED faults

\* A failed write or a kill between two statements of processListing.
ListingBreaksOff ==
    /\ faults < MaxFaults
    /\ \E g \in Pages, l \in Listings, reached \in {"matched", "halfway", "linked"} :
         Process(g, l, reached)
    /\ faults' = faults + 1

\* The service is stopped or killed and started again (createApp: backfillCatalog).  A start
\* broken off halfway serves nobody, and the next one finds the rows it left: one step.
Restart ==
    /\ column' = [p \in Products |-> IF p \in Unlinked THEN Code(row[p]) ELSE column[p]]
    /\ link' = [p \in Products |-> IF p \in Unlinked THEN Code(row[p]) ELSE link[p]]
    /\ torn' = torn \ Unlinked
    /\ UNCHANGED <<rowVars, product, events, history, faults>>

(****************************************************************************)
(* The user.                                                                *)
(****************************************************************************)
\* Mutated form of SplitRow: the new product keeps what identifies the old one.
SplitRowWhole(r) == r

\* The new row of a split: barcode and SKU are left to the old one.
SplitRow(r) == [r EXCEPT !.barcode = None, !.sku = None]

\* Mutated form of MoveOffers: only the offers are given to the other product.
MoveOffersOnly(moving, p) ==
    /\ product' = [g \in Pages |-> IF g \in moving THEN p ELSE product[g]]
    /\ UNCHANGED events
    /\ placed' = [g \in Pages |-> IF g \in moving THEN "user" ELSE placed[g]]
    /\ evidence' = [g \in Pages |-> IF g \in moving THEN NoRow ELSE evidence[g]]

\* Offers and their events are given to another product.
MoveOffers(moving, p) ==
    /\ product' = [g \in Pages |-> IF g \in moving THEN p ELSE product[g]]
    /\ events' = {IF e.page \in moving THEN [e EXCEPT !.product = p] ELSE e : e \in events}
    /\ placed' = [g \in Pages |-> IF g \in moving THEN "user" ELSE placed[g]]
    /\ evidence' = [g \in Pages |-> IF g \in moving THEN NoRow ELSE evidence[g]]

\* splitProduct: some of the offers, but not all, go to a new product.
SplitProduct ==
    /\ last < MaxProducts
    /\ \E p \in known : \E moving \in (SUBSET OffersOf(p)) \ {{}, OffersOf(p)} :
         /\ last' = last + 1
         /\ known' = known \cup {last'}
         /\ row' = [row EXCEPT ![last'] = SplitRow(row[p])]
         /\ column' = [column EXCEPT ![last'] = column[p]]
         /\ link' = [link EXCEPT ![last'] = link[p]]
         /\ torn' = IF p \in torn THEN torn \cup {last'} ELSE torn
         /\ MoveOffers(moving, last')
    /\ UNCHANGED faults

\* Mutated form of MergedColumn: the column of the source is not taken over.
MergedColumnKept(s, t) == [column EXCEPT ![s] = None]

\* The column of a merged product: its own, or that of the source.
MergedColumn(s, t) ==
    [column EXCEPT ![s] = None, ![t] = IF @ = None THEN column[s] ELSE @]

\* Mutated form of Reassigned: the offers of the source stay where they are.
ReassignedNone(s, t) == product

\* The offers of a merged product.
Reassigned(s, t) == [g \in Pages |-> IF product[g] = s THEN t ELSE product[g]]

\* mergeProducts: source s becomes part of target t.  The events are moved by
\* product, whatever their offer.
MergeProducts ==
    /\ \E s, t \in known :
         /\ s # t
         /\ known' = known \ {s}
         /\ row' = [row EXCEPT ![t] = Enriched(@, row[s]), ![s] = NoRow]
         /\ link' = [link EXCEPT ![t] = IF @ = None THEN link[s] ELSE @, ![s] = None]
         /\ column' = MergedColumn(s, t)
         /\ torn' = (torn \ {s}) \cup (IF s \in torn /\ link[t] = None THEN {t} ELSE {})
         /\ product' = Reassigned(s, t)
         /\ events' = {IF e.product = s THEN [e EXCEPT !.product = t] ELSE e : e \in events}
         /\ placed' = [g \in Pages |-> IF product[g] = s THEN "user" ELSE placed[g]]
         /\ evidence' = [g \in Pages |-> IF product[g] = s THEN NoRow ELSE evidence[g]]
    /\ UNCHANGED <<last, faults>>

Next ==
    \/ ProcessListing
    \/ ListingBreaksOff
    \/ Restart
    \/ SplitProduct
    \/ MergeProducts

Spec == Init /\ [][Next]_vars

(****************************************************************************)
(* Properties.                                                              *)
(****************************************************************************)
\* Every variable has its type, rows that are gone hold nothing, and an offer
\* belongs to a product that exists.
TypeOK ==
    /\ last \in 0 .. MaxProducts
    /\ known \subseteq 1 .. last
    /\ row \in [Products -> [Fields -> Values]]
    /\ \A p \in Products \ known : row[p] = NoRow
    /\ column \in [Products -> Catalogued \cup {None}]
    /\ link \in [Products -> Catalogued \cup {None}]
    /\ product \in [Pages -> known \cup {NoProduct}]
    /\ events \subseteq [page : Pages, product : known]
    /\ placed \in [Pages -> Placements]
    /\ evidence \in [Pages -> Listings \cup {NoRow}]
    /\ torn \subseteq known
    /\ faults \in 0 .. MaxFaults

\* A barcode names one product.  The code looks a barcode up with db.get and no
\* constraint of the schema helps; rows get their barcode from an insert, from a
\* match by SKU or model, and from a merge, and a split copies the row.
BarcodesDistinct ==
    \A p, q \in known :
        row[p].barcode # None /\ row[p].barcode = row[q].barcode => p = q

\* Offers the crawl put into one product were made from listings that agree:
\* no conflicting SKU, model or brand, and without a SKU to tell, no conflicting
\* variant.  A match by barcode overrides all of them, and the user may put
\* anything together (findOrCreateProduct, "Conflicting SKUs or explicit
\* variants make a model-only merge unsafe").
AutomaticJoinsAgree ==
    \A g, h \in Pages :
        (product[g] = product[h] /\ {placed[g], placed[h]} \subseteq {"new", "sku", "model"})
        => /\ \A f \in {"sku", "model", "brand"} : Compatible(evidence[g][f], evidence[h][f])
           /\ "sku" \notin {placed[g], placed[h]} =>
                  Compatible(evidence[g].variant, evidence[h].variant)

\* products.catalog_product_id, which watchlists are matched by, says what
\* product_catalog_links says, whatever was linked, repaired, merged and split:
\* both take the side of the same product, although one is an upsert, an insert
\* and a move of a row, and the other a COALESCE.  Only a listing broken off
\* between the two sets them apart, until a listing with a catalog code is
\* written for the product or a start repairs it.
CatalogAgrees == \A p \in known \ torn : column[p] = link[p]

\* An event is about the product its offer belongs to, so an announcement made
\* before or after the user merged or split names the user's product.
EventsFollowOffers == \A e \in events : e.product = product[e.page]
=============================================================================
