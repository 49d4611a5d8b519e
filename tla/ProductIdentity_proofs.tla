------------------------ MODULE ProductIdentity_proofs ------------------------
(****************************************************************************)
(* Proofs about ProductIdentity, for any pages, listings, products and      *)
(* faults.  EvidenceInv carries what each listing said of itself in the row *)
(* of its product, which is why two of them agree; GoneInv is why a new     *)
(* product starts without a catalog entry.  The other invariants are        *)
(* inductive as they stand.                                                 *)
(****************************************************************************)
EXTENDS ProductIdentity, FiniteSetTheorems, TLAPS

\* Nothing is linked to an id that is not a product, so a new row starts clean.
GoneInv == \A p \in Products \ known : column[p] = None /\ link[p] = None

\* The fields two listings joined by the crawl must not conflict in.
Agreed(g) ==
    IF placed[g] = "sku" THEN {"sku", "model", "brand"}
    ELSE {"sku", "model", "variant", "brand"}

\* What a listing said in those fields is what the row of its product says: fields
\* are filled in but never overwritten.
EvidenceInv ==
    \A g \in Pages : placed[g] \in {"new", "sku", "model"} =>
        /\ product[g] \in known
        /\ \A f \in Agreed(g) : evidence[g][f] \in {None, row[product[g]][f]}

IInv ==
    /\ TypeOK
    /\ GoneInv
    /\ EvidenceInv
    /\ BarcodesDistinct
    /\ CatalogAgrees
    /\ EventsFollowOffers

Reached == {"matched", "halfway", "linked", "written"}

-----------------------------------------------------------------------------
(* Rows *)

Rows == [Fields -> Values]

LEMMA ListingIsRow == ASSUME NEW l \in Listings PROVE l \in Rows
  BY IdentityAssumption DEF Rows, Values

LEMMA NoRowIsRow == NoRow \in Rows
  BY DEF NoRow, Rows, Values

LEMMA ProductsAreIds ==
    ASSUME TypeOK
    PROVE  /\ known \subseteq Products /\ NoProduct \notin known
           /\ last \in Nat /\ MaxProducts \in Nat /\ last + 1 \notin known
           /\ IsFiniteSet(known)
  <1>1. known \subseteq 1..last /\ last \in 0..MaxProducts /\ MaxProducts \in Nat
    BY IdentityAssumption DEF TypeOK
  <1>2. IsFiniteSet(1..last)
    BY <1>1, FS_Interval
  <1>3. IsFiniteSet(known)
    BY <1>1, <1>2, FS_Subset
  <1>4. QED
    BY <1>1, <1>3 DEF Products, NoProduct

LEMMA EnrichedRow ==
    ASSUME NEW r \in Rows, NEW s \in Rows
    PROVE  /\ Enriched(r, s) \in Rows
           /\ \A f \in Fields : r[f] # None => Enriched(r, s)[f] = r[f]
           /\ \A f \in Fields : r[f] = None => Enriched(r, s)[f] = s[f]
  BY DEF Rows, Enriched

LEMMA LinkedRowRow ==
    ASSUME NEW r \in Rows, NEW l \in Rows
    PROVE  /\ LinkedRow(r, l) \in Rows
           /\ \A f \in Fields : r[f] # None => LinkedRow(r, l)[f] = r[f]
           /\ \A f \in Fields \ {"sku"} : LinkedRow(r, l)[f] = r[f]
           /\ r["sku"] = None => LinkedRow(r, l)["sku"] = l["sku"]
  BY DEF Rows, LinkedRow, Fields

LEMMA SplitRowRow ==
    ASSUME NEW r \in Rows
    PROVE  SplitRow(r) \in Rows /\ SplitRow(r)["barcode"] = None
  <1>1. None \in Values
    BY DEF Values
  <1>2. QED
    BY <1>1 DEF Rows, SplitRow, Fields

LEMMA CodeType ==
    ASSUME NEW r \in Rows
    PROVE  Code(r) \in Catalogued \cup {None}
  BY DEF Code

-----------------------------------------------------------------------------
(* Matching *)

\* The row a match by barcode, SKU or model may name.
Matches(p, l, by) ==
    \/ by = "barcode" /\ p \in ByBarcode(l)
    \/ by = "sku" /\ ByBarcode(l) = {} /\ p \in BySku(l)
    \/ by = "model" /\ ByBarcode(l) = {} /\ p \in ByModel(l)

LEMMA OnlySubset == ASSUME NEW S PROVE Only(S) \subseteq S
  BY DEF Only

LEMMA OnlyUnique ==
    ASSUME NEW S, IsFiniteSet(S), NEW x \in Only(S), NEW y \in Only(S)
    PROVE  x = y
  <1>1. Cardinality(S) = 1 /\ x \in S /\ y \in S
    BY DEF Only
  <1>2. PICK z : S = {z}
    BY <1>1, FS_Singleton
  <1>3. QED
    BY <1>1, <1>2

\* What a matched row says of the listing.
LEMMA MatchedSays ==
    ASSUME NEW l \in Listings, NEW p, NEW by, Matches(p, l, by)
    PROVE  /\ p \in known
           /\ by = "barcode" => l["barcode"] # None /\ row[p]["barcode"] = l["barcode"]
           /\ by # "barcode" => ByBarcode(l) = {}
           /\ by \in {"sku", "model"} =>
                 \A f \in {"sku", "model", "brand"} : Compatible(row[p][f], l[f])
           /\ by = "model" => row[p]["variant"] = l["variant"]
  <1>1. CASE by = "barcode"
    BY <1>1 DEF Matches, ByBarcode
  <1>2. CASE by = "sku"
    <2>1. p \in BySku(l) /\ ByBarcode(l) = {}
      BY <1>2 DEF Matches
    <2>2. p \in known /\ row[p].sku = l.sku /\ Compatible(row[p].model, l.model)
          /\ Compatible(row[p].brand, l.brand)
      BY <2>1, OnlySubset DEF BySku
    <2>3. QED
      BY <1>2, <2>1, <2>2 DEF Compatible
  <1>3. CASE by = "model"
    <2>1. p \in ByModel(l) /\ ByBarcode(l) = {}
      BY <1>3 DEF Matches
    <2>2. p \in SameModel(l) /\ Compatible(row[p].brand, l.brand)
      BY <2>1, OnlySubset DEF ByModel
    <2>3. QED
      BY <1>3, <2>1, <2>2 DEF SameModel, Compatible
  <1>4. QED
    BY <1>1, <1>2, <1>3 DEF Matches

\* Where a listing is written: for a product there is or a new one.
Written(g, l, p, by) ==
    \/ p \in known /\ UNCHANGED <<last, known>> /\ product[g] = p
    \/ /\ p \in known /\ UNCHANGED <<last, known>> /\ product[g] = NoProduct
       /\ Matches(p, l, by)
    \/ /\ p = last + 1 /\ last' = p /\ known' = known \cup {p} /\ p \notin known
       /\ product[g] = NoProduct /\ by = "new" /\ ByBarcode(l) = {}

\* A listing is written for the product of its page, one it matches, or a new one.
LEMMA ProcessCases ==
    ASSUME TypeOK, NEW g \in Pages, NEW l \in Listings, NEW reached \in Reached,
           Process(g, l, reached)
    PROVE  \E p \in Products, by \in Placements :
              Written(g, l, p, by) /\ Write(g, l, p, by, reached)
  <1>1. CASE product[g] # NoProduct
    <2>1. Owner(g, l).products = {product[g]} /\ Owner(g, l).by = placed[g]
      BY <1>1 DEF Owner
    <2>2. product[g] \in known /\ placed[g] \in Placements
      BY <1>1 DEF TypeOK
    <2>3. UNCHANGED <<last, known>> /\ Write(g, l, product[g], placed[g], reached)
      BY <2>1 DEF Process
    <2>4. QED
      BY <2>2, <2>3, ProductsAreIds DEF Written
  <1>2. CASE product[g] = NoProduct
    <2>1. Owner(g, l) = Match(l)
      BY <1>2 DEF Owner
    <2>2. ASSUME NEW p \in Match(l).products
          PROVE  Matches(p, l, Match(l).by) /\ Match(l).by \in Placements /\ p \in Products
      <3>1. Matches(p, l, Match(l).by) /\ Match(l).by \in Placements
        BY <2>2 DEF Match, Matches, Placements
      <3>2. QED
        BY <3>1, MatchedSays, ProductsAreIds
    <2>3. CASE UNCHANGED <<last, known>>
               /\ \E p \in Match(l).products : Write(g, l, p, Match(l).by, reached)
      BY <1>2, <2>2, <2>3, MatchedSays DEF Written
    <2>4. CASE /\ Match(l).products = {}
               /\ last < MaxProducts
               /\ last' = last + 1
               /\ known' = known \cup {last'}
               /\ Write(g, l, last', "new", reached)
      <3>1. ByBarcode(l) = {}
        BY <2>4 DEF Match
      <3>2. last + 1 \in Products /\ last + 1 \notin known
        BY <2>4, ProductsAreIds DEF Products
      <3>3. QED
        BY <1>2, <2>4, <3>1, <3>2 DEF Placements, Written
    <2>5. QED
      BY <2>1, <2>3, <2>4 DEF Process
  <1>3. QED
    BY <1>1, <1>2

-----------------------------------------------------------------------------
(* Writing a listing *)

\* A row that is written stays a row; what it says is kept, what it lacks comes
\* from the listing, and only the SKU if the page was known.
LEMMA WrittenRow ==
    ASSUME TypeOK, NEW g \in Pages, NEW l \in Listings, NEW p \in Products,
           NEW by, NEW reached, Write(g, l, p, by, reached)
    PROVE  /\ row' \in [Products -> Rows]
           /\ \A q \in Products \ {p} : row'[q] = row[q]
           /\ by = "new" /\ product[g] = NoProduct => row'[p] = l
           /\ by # "new" \/ product[g] # NoProduct =>
                 \A f \in Fields : row'[p][f] = row[p][f] \/ (row[p][f] = None /\ row'[p][f] = l[f])
           /\ by # "new" /\ product[g] = NoProduct =>
                 \A f \in Fields : row[p][f] = None => row'[p][f] = l[f]
           /\ product[g] # NoProduct => \A f \in Fields \ {"sku"} : row'[p][f] = row[p][f]
  <1> DEFINE matched == IF product[g] = NoProduct THEN MatchedRow(row[p], l, by) ELSE row[p]
             linked == Code(l) # None /\ reached \in {"linked", "written"}
             written == IF linked THEN LinkedRow(matched, l) ELSE matched
  <1>1. row \in [Products -> Rows] /\ row[p] \in Rows /\ l \in Rows
    BY ListingIsRow DEF TypeOK, Rows
  <1>2. row' = [row EXCEPT ![p] = written]
    BY DEF Write
  <1>3. matched \in Rows
    BY <1>1, EnrichedRow DEF MatchedRow
  <1>4. written \in Rows
    BY <1>1, <1>3, LinkedRowRow
  <1>5. by = "new" /\ product[g] = NoProduct => matched = l
    BY DEF MatchedRow
  <1>6. LinkedRow(l, l) = l
    <2>1. \A f \in Fields : LinkedRow(l, l)[f] = l[f]
      BY <1>1, LinkedRowRow
    <2>2. QED
      BY <1>1, <2>1, LinkedRowRow DEF Rows
  <1>7. by # "new" /\ product[g] = NoProduct => matched = Enriched(row[p], l)
    BY DEF MatchedRow
  <1>8. \A f \in Fields : matched[f] # None => written[f] = matched[f]
    BY <1>1, <1>3, LinkedRowRow
  <1>9. \A f \in Fields \ {"sku"} : written[f] = matched[f]
    BY <1>1, <1>3, LinkedRowRow
  <1>10. matched["sku"] = None => written["sku"] \in {None, l["sku"]}
    BY <1>1, <1>3, LinkedRowRow DEF Fields
  <1>11. row'[p] = written /\ \A q \in Products \ {p} : row'[q] = row[q]
    BY <1>1, <1>2
  <1> HIDE DEF matched, linked, written
  <1>12. row' \in [Products -> Rows]
    BY <1>1, <1>2, <1>4
  <1>13. CASE by = "new" /\ product[g] = NoProduct
    <2>1. written = l
      BY <1>5, <1>6, <1>13 DEF written
    <2>2. QED
      BY <1>11, <1>12, <1>13, <2>1
  <1>14. CASE by # "new" /\ product[g] = NoProduct
    <2>1. \A f \in Fields : row[p][f] # None => matched[f] = row[p][f]
      BY <1>1, <1>7, <1>14, EnrichedRow
    <2>2. \A f \in Fields : row[p][f] = None => matched[f] = l[f]
      BY <1>1, <1>7, <1>14, EnrichedRow
    <2>3. \A f \in Fields : row[p][f] = None => written[f] = l[f]
      BY <1>8, <1>9, <1>10, <2>2
    <2>4. \A f \in Fields : row[p][f] # None => written[f] = row[p][f]
      BY <1>8, <2>1
    <2>5. QED
      BY <1>11, <1>12, <1>14, <2>3, <2>4
  <1>15. CASE product[g] # NoProduct
    <2>1. matched = row[p]
      BY <1>15 DEF matched
    <2>2. QED
      BY <1>8, <1>9, <1>10, <1>11, <1>12, <1>15, <2>1
  <1>16. QED
    BY <1>13, <1>14, <1>15

LEMMA WriteType ==
    ASSUME TypeOK, NEW g \in Pages, NEW l \in Listings, NEW p \in Products,
           NEW by \in Placements, NEW reached \in Reached,
           Written(g, l, p, by), Write(g, l, p, by, reached), faults' \in 0..MaxFaults
    PROVE  TypeOK'
  <1>1. /\ known' \subseteq 1..last' /\ last' \in 0..MaxProducts
        /\ p \in known' /\ known' \subseteq known \cup {p} /\ known \subseteq known'
    BY IdentityAssumption DEF Written, TypeOK, Products
  <1>2. /\ row' \in [Products -> [Fields -> Values]]
        /\ \A q \in Products \ known' : row'[q] = NoRow
    <2>1. row' \in [Products -> Rows] /\ \A q \in Products \ {p} : row'[q] = row[q]
      BY WrittenRow
    <2>2. QED
      BY <1>1, <2>1 DEF TypeOK, Rows
  <1>3. /\ column' \in [Products -> Catalogued \cup {None}]
        /\ link' \in [Products -> Catalogued \cup {None}]
    <2>1. Code(l) \in Catalogued \cup {None}
      BY ListingIsRow, CodeType
    <2>2. QED
      BY <2>1 DEF TypeOK, Write
  <1>4. /\ product' \in [Pages -> known' \cup {NoProduct}]
        /\ placed' \in [Pages -> Placements]
        /\ evidence' \in [Pages -> Listings \cup {NoRow}]
    <2>1. CASE reached = "written" /\ product[g] = NoProduct
      <3>1. /\ product' = [product EXCEPT ![g] = p]
            /\ placed' = [placed EXCEPT ![g] = by]
            /\ evidence' = [evidence EXCEPT ![g] = IF by = "barcode" THEN NoRow ELSE l]
        BY <2>1 DEF Write
      <3>2. QED
        BY <1>1, <3>1 DEF TypeOK
    <2>2. CASE ~(reached = "written" /\ product[g] = NoProduct)
      <3>1. UNCHANGED <<product, placed, evidence>>
        BY <2>2 DEF Write, history
      <3>2. QED
        BY <1>1, <3>1 DEF TypeOK
    <2>3. QED
      BY <2>1, <2>2
  <1>5. events' \subseteq [page : Pages, product : known']
    <2>1. events' = events \/ events' = events \cup {[page |-> g, product |-> p]}
      BY DEF Write
    <2>2. events \subseteq [page : Pages, product : known']
      BY <1>1 DEF TypeOK
    <2>3. QED
      BY <1>1, <2>1, <2>2
  <1>6. torn' \subseteq known'
    <2>1. torn' \subseteq torn \cup {p}
      BY DEF Write
    <2>2. QED
      BY <1>1, <2>1 DEF TypeOK
  <1>7. QED
    BY <1>1, <1>2, <1>3, <1>4, <1>5, <1>6 DEF TypeOK

LEMMA WriteCatalog ==
    ASSUME IInv, NEW g \in Pages, NEW l \in Listings, NEW p \in Products,
           NEW by \in Placements, NEW reached \in Reached,
           Written(g, l, p, by), Write(g, l, p, by, reached)
    PROVE  GoneInv' /\ CatalogAgrees'
  <1>1. /\ TypeOK /\ GoneInv /\ CatalogAgrees
        /\ p \in known' /\ known' \subseteq known \cup {p} /\ known \subseteq known'
    BY DEF Written, IInv
  <1>2. \A q \in Products \ {p} : column'[q] = column[q] /\ link'[q] = link[q]
    BY <1>1 DEF Write, TypeOK
  <1>3. \A q \in Products \ {p} : q \in torn' <=> q \in torn
    BY DEF Write
  <1>4. p \notin torn' => column'[p] = link'[p]
    <2>1. p \notin torn => column[p] = link[p]
      BY <1>1 DEF GoneInv, CatalogAgrees
    <2>2. CASE Code(l) = None \/ reached = "matched"
      BY <1>1, <2>1, <2>2 DEF Write, TypeOK
    <2>3. CASE Code(l) # None /\ reached \in {"halfway", "linked", "written"}
      <3>1. link'[p] = Code(l)
        BY <1>1, <2>3 DEF Write, TypeOK
      <3>2. torn' = IF column'[p] = Code(l) THEN torn \ {p} ELSE torn \cup {p}
        BY <2>3 DEF Write
      <3>3. QED
        BY <3>1, <3>2
    <2>4. QED
      BY <2>2, <2>3 DEF Reached
  <1>5. known \subseteq Products /\ known' \subseteq Products
    BY <1>1, ProductsAreIds
  <1>6. QED
    BY <1>1, <1>2, <1>3, <1>4, <1>5 DEF GoneInv, CatalogAgrees

LEMMA WriteBarcodes ==
    ASSUME IInv, NEW g \in Pages, NEW l \in Listings, NEW p \in Products,
           NEW by \in Placements, NEW reached \in Reached,
           Written(g, l, p, by), Write(g, l, p, by, reached)
    PROVE  BarcodesDistinct'
  <1>1. /\ TypeOK /\ BarcodesDistinct /\ known \subseteq Products
        /\ p \in known' /\ known' \subseteq known \cup {p}
    BY ProductsAreIds DEF Written, IInv
  <1>2. \A q \in Products \ {p} : row'[q] = row[q]
    BY <1>1, WrittenRow
  <1>3. \/ p \in known /\ row'[p]["barcode"] = row[p]["barcode"]
        \/ row'[p]["barcode"] = l["barcode"] /\ ByBarcode(l) = {}
    <2>1. CASE product[g] = p
      BY <1>1, <2>1, WrittenRow, ProductsAreIds DEF Written, Fields
    <2>2. CASE product[g] = NoProduct /\ Matches(p, l, by)
      <3>1. by # "new" /\ p \in known
        BY <2>2, MatchedSays DEF Matches
      <3>2. \/ row'[p]["barcode"] = row[p]["barcode"]
            \/ row[p]["barcode"] = None /\ row'[p]["barcode"] = l["barcode"]
        BY <1>1, <3>1, WrittenRow DEF Fields
      <3>3. CASE by = "barcode"
        BY <2>2, <3>1, <3>2, <3>3, MatchedSays
      <3>4. CASE by # "barcode"
        BY <2>2, <3>1, <3>2, <3>4, MatchedSays
      <3>5. QED
        BY <3>3, <3>4
    <2>3. CASE product[g] = NoProduct /\ by = "new" /\ ByBarcode(l) = {}
      BY <1>1, <2>3, WrittenRow
    <2>4. QED
      BY <2>1, <2>2, <2>3 DEF Written
  <1>4. ByBarcode(l) = {} => \A q \in known : l["barcode"] = None \/ row[q]["barcode"] # l["barcode"]
    BY DEF ByBarcode
  <1>5. QED
    BY <1>1, <1>2, <1>3, <1>4 DEF BarcodesDistinct

LEMMA WriteEvidence ==
    ASSUME IInv, NEW g \in Pages, NEW l \in Listings, NEW p \in Products,
           NEW by \in Placements, NEW reached \in Reached,
           Written(g, l, p, by), Write(g, l, p, by, reached)
    PROVE  EvidenceInv'
  <1> SUFFICES ASSUME NEW h \in Pages, placed'[h] \in {"new", "sku", "model"}
               PROVE  /\ product'[h] \in known'
                      /\ \A f \in Agreed(h)' : evidence'[h][f] \in {None, row'[product'[h]][f]}
    BY DEF EvidenceInv
  <1>1. /\ TypeOK /\ EvidenceInv /\ known \subseteq Products /\ NoProduct \notin known
        /\ p \in known' /\ known \subseteq known'
    BY ProductsAreIds DEF Written, IInv
  <1>2. CASE reached = "written" /\ product[g] = NoProduct /\ h = g
    <2>1. placed'[h] = by /\ product'[h] = p
      BY <1>1, <1>2 DEF Write, TypeOK
    <2>2. evidence'[h] = l
      BY <1>1, <1>2, <2>1 DEF Write, TypeOK
    <2>3. CASE by = "new"
      <3>1. row'[p] = l
        BY <1>1, <1>2, <2>3, WrittenRow
      <3>2. QED
        BY <1>1, <2>1, <2>2, <3>1
    <2>4. CASE by \in {"sku", "model"}
      <3>1. Matches(p, l, by)
        BY <1>1, <1>2, <2>4 DEF Written
      <3>2. \A f \in Fields : /\ row'[p][f] = row[p][f] \/ row[p][f] = None
                              /\ row[p][f] = None => row'[p][f] = l[f]
        BY <1>1, <1>2, <2>4, WrittenRow
      <3>3. \A f \in {"sku", "model", "brand"} : Compatible(row[p][f], l[f])
        BY <2>4, <3>1, MatchedSays
      <3>4. by = "model" => row[p]["variant"] = l["variant"]
        BY <3>1, MatchedSays
      <3>5. \A f \in {"sku", "model", "brand"} : l[f] \in {None, row'[p][f]}
        BY <3>2, <3>3 DEF Compatible, Fields
      <3>6. by = "model" => l["variant"] \in {None, row'[p]["variant"]}
        BY <3>2, <3>4 DEF Fields
      <3>7. QED
        BY <1>1, <2>1, <2>2, <2>4, <3>5, <3>6 DEF Agreed
    <2>5. QED
      BY <2>1, <2>3, <2>4
  <1>3. CASE ~(reached = "written" /\ product[g] = NoProduct /\ h = g)
    <2>1. placed'[h] = placed[h] /\ product'[h] = product[h] /\ evidence'[h] = evidence[h]
      BY <1>1, <1>3 DEF Write, history, TypeOK
    <2>2. /\ product[h] \in known
          /\ \A f \in Agreed(h) : evidence[h][f] \in {None, row[product[h]][f]}
      BY <1>1, <2>1 DEF EvidenceInv
    <2>3. \A f \in Fields : row[product[h]][f] # None => row'[product[h]][f] = row[product[h]][f]
      <3>1. CASE product[h] # p
        BY <1>1, <2>2, <3>1, WrittenRow
      <3>2. CASE product[h] = p
        <4>1. by # "new" \/ product[g] # NoProduct
          BY <1>1, <2>2, <3>2 DEF Written, Matches
        <4>2. QED
          BY <1>1, <3>2, <4>1, WrittenRow
      <3>3. QED
        BY <3>1, <3>2
    <2>4. Agreed(h)' = Agreed(h) /\ Agreed(h) \subseteq Fields
      BY <2>1 DEF Agreed, Fields
    <2>5. QED
      BY <1>1, <2>1, <2>2, <2>3, <2>4
  <1>4. QED
    BY <1>2, <1>3

LEMMA WriteEvents ==
    ASSUME IInv, NEW g \in Pages, NEW l \in Listings, NEW p \in Products,
           NEW by \in Placements, NEW reached \in Reached,
           Written(g, l, p, by), Write(g, l, p, by, reached)
    PROVE  EventsFollowOffers'
  <1>1. TypeOK /\ EventsFollowOffers /\ NoProduct \notin known
    BY ProductsAreIds DEF IInv
  <1>2. \A e \in events : e.page \in Pages /\ e.product \in known /\ e.product = product[e.page]
    BY <1>1 DEF EventsFollowOffers, TypeOK
  <1>3. \A h \in Pages : product[h] # NoProduct => product'[h] = product[h]
    BY <1>1 DEF Write, TypeOK
  <1>4. \A e \in events : e.product = product'[e.page]
    BY <1>1, <1>2, <1>3
  <1>5. reached = "written" => product'[g] = p
    BY <1>1 DEF Write, Written, TypeOK
  <1>6. CASE events' = events
    BY <1>4, <1>6 DEF EventsFollowOffers
  <1>7. CASE reached = "written" /\ events' = events \cup {[page |-> g, product |-> p]}
    BY <1>4, <1>5, <1>7 DEF EventsFollowOffers
  <1>8. QED
    BY <1>6, <1>7 DEF Write

LEMMA ProcessInv ==
    ASSUME IInv, NEW g \in Pages, NEW l \in Listings, NEW reached \in Reached,
           Process(g, l, reached), faults' \in 0..MaxFaults
    PROVE  IInv'
  <1>1. PICK p \in Products, by \in Placements :
            Written(g, l, p, by) /\ Write(g, l, p, by, reached)
    BY ProcessCases DEF IInv
  <1>2. TypeOK'
    BY <1>1, WriteType DEF IInv
  <1>3. QED
    BY <1>1, <1>2, WriteCatalog, WriteBarcodes, WriteEvidence, WriteEvents DEF IInv

-----------------------------------------------------------------------------
(* The start of the service *)

LEMMA RestartInv == ASSUME IInv, Restart PROVE IInv'
  <1>1. TypeOK /\ GoneInv /\ CatalogAgrees /\ known \subseteq Products
    BY ProductsAreIds DEF IInv
  <1>2. UNCHANGED <<last, known, row, product, events, placed, evidence, faults>>
    BY DEF Restart, rowVars, history
  <1>3. \A p \in Unlinked : Code(row[p]) \in Catalogued
    BY DEF Unlinked, Code
  <1>4. TypeOK'
    <2>1. column' \in [Products -> Catalogued \cup {None}]
      BY <1>1, <1>3 DEF Restart, TypeOK
    <2>2. link' \in [Products -> Catalogued \cup {None}]
      BY <1>1, <1>3 DEF Restart, TypeOK
    <2>3. torn' \subseteq known
      BY <1>1 DEF Restart, TypeOK
    <2>4. QED
      BY <1>1, <1>2, <2>1, <2>2, <2>3 DEF TypeOK
  <1>5. GoneInv'
    BY <1>1, <1>2 DEF GoneInv, Restart, Unlinked
  <1>6. CatalogAgrees'
    BY <1>1, <1>2 DEF CatalogAgrees, Restart
  <1>7. EvidenceInv' /\ BarcodesDistinct' /\ EventsFollowOffers'
    BY <1>2 DEF IInv, EvidenceInv, Agreed, BarcodesDistinct, EventsFollowOffers
  <1>8. QED
    BY <1>4, <1>5, <1>6, <1>7 DEF IInv

-----------------------------------------------------------------------------
(* The user *)

LEMMA SplitInv == ASSUME IInv, SplitProduct PROVE IInv'
  <1>0. /\ TypeOK /\ GoneInv /\ EvidenceInv /\ BarcodesDistinct /\ CatalogAgrees
        /\ EventsFollowOffers /\ known \subseteq Products /\ NoProduct \notin known
    BY ProductsAreIds DEF IInv
  <1> DEFINE n == last'
             Split(p, moving) ==
                /\ last' = last + 1
                /\ known' = known \cup {n}
                /\ row' = [row EXCEPT ![n] = SplitRow(row[p])]
                /\ column' = [column EXCEPT ![n] = column[p]]
                /\ link' = [link EXCEPT ![n] = link[p]]
                /\ torn' = IF p \in torn THEN torn \cup {n} ELSE torn
                /\ MoveOffers(moving, n)
  <1>1. last < MaxProducts /\ UNCHANGED faults
    BY DEF SplitProduct
  <1>2. PICK p \in known : \E moving \in (SUBSET OffersOf(p)) \ {{}, OffersOf(p)} : Split(p, moving)
    BY DEF SplitProduct
  <1>3. PICK moving \in (SUBSET OffersOf(p)) \ {{}, OffersOf(p)} : Split(p, moving)
    BY <1>2
  <1>4. last < MaxProducts /\ UNCHANGED faults /\ moving \subseteq OffersOf(p) /\ Split(p, moving)
    BY <1>1, <1>3
  <1>5. n \in Products /\ n \notin known /\ n \in Nat /\ n # p /\ n # NoProduct
    BY <1>0, <1>4, ProductsAreIds DEF Products, NoProduct
  <1>6. /\ row'[n] = SplitRow(row[p]) /\ column'[n] = column[p] /\ link'[n] = link[p]
        /\ \A q \in Products \ {n} : row'[q] = row[q] /\ column'[q] = column[q] /\ link'[q] = link[q]
    BY <1>0, <1>4, <1>5 DEF TypeOK
  <1>7. SplitRow(row[p]) \in [Fields -> Values] /\ SplitRow(row[p])["barcode"] = None
    BY <1>0, SplitRowRow DEF TypeOK, Rows
  <1>8. moving \subseteq Pages /\ \A g \in moving : product[g] = p
    BY <1>4 DEF OffersOf
  <1>9. \A g \in Pages :
            /\ product'[g] = IF g \in moving THEN n ELSE product[g]
            /\ placed'[g] = IF g \in moving THEN "user" ELSE placed[g]
            /\ evidence'[g] = IF g \in moving THEN NoRow ELSE evidence[g]
    BY <1>4 DEF MoveOffers
  <1>10. \A e \in events' : \E d \in events :
            e = IF d.page \in moving THEN [page |-> d.page, product |-> n] ELSE d
    BY <1>0, <1>4 DEF MoveOffers, TypeOK
  <1>11. TypeOK'
    <2>1. last' \in 0..MaxProducts /\ known' \subseteq 1..last' /\ known' \subseteq Products
      BY <1>0, <1>4, <1>5, ProductsAreIds DEF TypeOK, Products
    <2>2. /\ row' \in [Products -> [Fields -> Values]]
          /\ \A q \in Products \ known' : row'[q] = NoRow
      BY <1>0, <1>4, <1>5, <1>6, <1>7 DEF TypeOK
    <2>3. /\ column' \in [Products -> Catalogued \cup {None}]
          /\ link' \in [Products -> Catalogued \cup {None}]
      BY <1>0, <1>4 DEF TypeOK
    <2>4. /\ product' \in [Pages -> known' \cup {NoProduct}]
          /\ placed' \in [Pages -> Placements]
          /\ evidence' \in [Pages -> Listings \cup {NoRow}]
      BY <1>0, <1>4 DEF MoveOffers, TypeOK, Placements
    <2>5. events' \subseteq [page : Pages, product : known']
      <3>1. \A d \in events : d \in [page : Pages, product : known]
        BY <1>0 DEF TypeOK
      <3>2. n \in known' /\ known \subseteq known'
        BY <1>4
      <3>3. QED
        BY <1>10, <3>1, <3>2
    <2>6. torn' \subseteq known' /\ faults' \in 0..MaxFaults
      BY <1>0, <1>4 DEF TypeOK
    <2>7. QED
      BY <2>1, <2>2, <2>3, <2>4, <2>5, <2>6 DEF TypeOK
  <1>12. GoneInv'
    BY <1>0, <1>4, <1>6 DEF GoneInv
  <1>13. EvidenceInv'
    <2> SUFFICES ASSUME NEW g \in Pages, placed'[g] \in {"new", "sku", "model"}
                 PROVE  /\ product'[g] \in known'
                        /\ \A f \in Agreed(g)' : evidence'[g][f] \in {None, row'[product'[g]][f]}
      BY DEF EvidenceInv
    <2>1. g \notin moving
      BY <1>9
    <2>2. placed'[g] = placed[g] /\ product'[g] = product[g] /\ evidence'[g] = evidence[g]
      BY <1>9, <2>1
    <2>3. /\ product[g] \in known
          /\ \A f \in Agreed(g) : evidence[g][f] \in {None, row[product[g]][f]}
      BY <1>0, <2>2 DEF EvidenceInv
    <2>4. row'[product[g]] = row[product[g]] /\ Agreed(g)' = Agreed(g)
      BY <1>0, <1>5, <1>6, <2>2, <2>3 DEF Agreed
    <2>5. QED
      BY <1>4, <2>2, <2>3, <2>4
  <1>14. BarcodesDistinct'
    BY <1>0, <1>4, <1>5, <1>6, <1>7 DEF BarcodesDistinct
  <1>15. CatalogAgrees'
    BY <1>0, <1>4, <1>5, <1>6 DEF CatalogAgrees, TypeOK
  <1>16. EventsFollowOffers'
    BY <1>0, <1>9, <1>10 DEF EventsFollowOffers, TypeOK
  <1>17. QED
    BY <1>11, <1>12, <1>13, <1>14, <1>15, <1>16 DEF IInv

LEMMA MergeInv == ASSUME IInv, MergeProducts PROVE IInv'
  <1>0. /\ TypeOK /\ GoneInv /\ EvidenceInv /\ BarcodesDistinct /\ CatalogAgrees
        /\ EventsFollowOffers /\ known \subseteq Products /\ NoProduct \notin known
    BY ProductsAreIds DEF IInv
  <1>1. PICK s \in known, t \in known :
            /\ s # t
            /\ known' = known \ {s}
            /\ row' = [row EXCEPT ![t] = Enriched(@, row[s]), ![s] = NoRow]
            /\ link' = [link EXCEPT ![t] = IF @ = None THEN link[s] ELSE @, ![s] = None]
            /\ column' = MergedColumn(s, t)
            /\ torn' = (torn \ {s}) \cup (IF s \in torn /\ link[t] = None THEN {t} ELSE {})
            /\ product' = Reassigned(s, t)
            /\ events' = {IF e.product = s THEN [e EXCEPT !.product = t] ELSE e : e \in events}
            /\ placed' = [g \in Pages |-> IF product[g] = s THEN "user" ELSE placed[g]]
            /\ evidence' = [g \in Pages |-> IF product[g] = s THEN NoRow ELSE evidence[g]]
            /\ UNCHANGED <<last, faults>>
    BY DEF MergeProducts
  <1>2. /\ Enriched(row[t], row[s]) \in [Fields -> Values]
        /\ \A f \in Fields : row[t][f] # None => Enriched(row[t], row[s])[f] = row[t][f]
        /\ \A f \in Fields : row[t][f] = None => Enriched(row[t], row[s])[f] = row[s][f]
    BY <1>0, EnrichedRow DEF TypeOK, Rows
  <1>3. /\ row'[t] = Enriched(row[t], row[s]) /\ row'[s] = NoRow
        /\ \A q \in Products \ {s, t} : row'[q] = row[q]
    BY <1>0, <1>1 DEF TypeOK
  <1>4. /\ link'[t] = (IF link[t] = None THEN link[s] ELSE link[t]) /\ link'[s] = None
        /\ \A q \in Products \ {s, t} : link'[q] = link[q]
    BY <1>0, <1>1 DEF TypeOK
  <1>5. /\ column'[t] = (IF column[t] = None THEN column[s] ELSE column[t]) /\ column'[s] = None
        /\ \A q \in Products \ {s, t} : column'[q] = column[q]
    BY <1>0, <1>1 DEF TypeOK, MergedColumn
  <1>6. \A g \in Pages : product'[g] = IF product[g] = s THEN t ELSE product[g]
    BY <1>1 DEF Reassigned
  <1>7. \A e \in events' : \E d \in events :
            e = IF d.product = s THEN [page |-> d.page, product |-> t] ELSE d
    BY <1>0, <1>1 DEF TypeOK
  <1>8. TypeOK'
    <2>1. last' \in 0..MaxProducts /\ known' \subseteq 1..last'
      BY <1>0, <1>1 DEF TypeOK
    <2>2. /\ row' \in [Products -> [Fields -> Values]]
          /\ \A q \in Products \ known' : row'[q] = NoRow
      <3>1. NoRow \in [Fields -> Values]
        BY NoRowIsRow DEF Rows
      <3>2. row' \in [Products -> [Fields -> Values]]
        BY <1>0, <1>1, <1>2, <3>1 DEF TypeOK
      <3>3. QED
        BY <1>0, <1>1, <1>3, <3>2 DEF TypeOK
    <2>3. /\ column' \in [Products -> Catalogued \cup {None}]
          /\ link' \in [Products -> Catalogued \cup {None}]
      BY <1>0, <1>1 DEF TypeOK, MergedColumn
    <2>4. /\ product' \in [Pages -> known' \cup {NoProduct}]
          /\ placed' \in [Pages -> Placements]
          /\ evidence' \in [Pages -> Listings \cup {NoRow}]
      BY <1>0, <1>1 DEF Reassigned, TypeOK, Placements
    <2>5. events' \subseteq [page : Pages, product : known']
      <3>1. \A d \in events : d \in [page : Pages, product : known]
        BY <1>0 DEF TypeOK
      <3>2. t \in known' /\ known \ {s} \subseteq known'
        BY <1>1
      <3>3. QED
        BY <1>7, <3>1, <3>2
    <2>6. torn' \subseteq known' /\ faults' \in 0..MaxFaults
      BY <1>0, <1>1 DEF TypeOK
    <2>7. QED
      BY <2>1, <2>2, <2>3, <2>4, <2>5, <2>6 DEF TypeOK
  <1>9. GoneInv'
    BY <1>0, <1>1, <1>4, <1>5 DEF GoneInv
  <1>10. EvidenceInv'
    <2> SUFFICES ASSUME NEW g \in Pages, placed'[g] \in {"new", "sku", "model"}
                 PROVE  /\ product'[g] \in known'
                        /\ \A f \in Agreed(g)' : evidence'[g][f] \in {None, row'[product'[g]][f]}
      BY DEF EvidenceInv
    <2>1. product[g] # s
      BY <1>1
    <2>2. placed'[g] = placed[g] /\ product'[g] = product[g] /\ evidence'[g] = evidence[g]
      BY <1>1, <1>6, <2>1
    <2>3. /\ product[g] \in known
          /\ \A f \in Agreed(g) : evidence[g][f] \in {None, row[product[g]][f]}
      BY <1>0, <2>2 DEF EvidenceInv
    <2>4. \A f \in Fields : row[product[g]][f] # None => row'[product[g]][f] = row[product[g]][f]
      BY <1>0, <1>2, <1>3, <2>1, <2>3
    <2>5. Agreed(g)' = Agreed(g) /\ Agreed(g) \subseteq Fields
      BY <2>2 DEF Agreed, Fields
    <2>6. QED
      BY <1>1, <2>1, <2>2, <2>3, <2>4, <2>5
  <1>11. BarcodesDistinct'
    <2>0. BarcodesDistinct /\ known' = known \ {s} /\ s \in known /\ t \in known /\ s # t
      BY <1>0, <1>1
    <2>1. row'[t]["barcode"] \in {row[t]["barcode"], row[s]["barcode"]}
      BY <1>2, <1>3 DEF Fields
    <2>2. \A q \in known' \ {t} : row'[q] = row[q]
      BY <1>0, <1>1, <1>3
    <2>3. \A q \in known' \ {t} :
             row'[t]["barcode"] # None => row'[t]["barcode"] # row'[q]["barcode"]
      BY <2>0, <2>1, <2>2 DEF BarcodesDistinct
    <2>4. \A q, u \in known' \ {t} :
             row'[q]["barcode"] # None /\ row'[q]["barcode"] = row'[u]["barcode"] => q = u
      BY <2>0, <2>2 DEF BarcodesDistinct
    <2>5. QED
      BY <2>3, <2>4 DEF BarcodesDistinct
  <1>12. CatalogAgrees'
    <2>1. t \notin torn' => column'[t] = link'[t]
      BY <1>0, <1>1, <1>4, <1>5 DEF CatalogAgrees
    <2>2. \A q \in known' \ {t} : q \notin torn' => q \notin torn
      BY <1>1
    <2>3. QED
      BY <1>0, <1>1, <1>4, <1>5, <2>1, <2>2 DEF CatalogAgrees
  <1>13. EventsFollowOffers'
    BY <1>0, <1>6, <1>7 DEF EventsFollowOffers, TypeOK
  <1>14. QED
    BY <1>8, <1>9, <1>10, <1>11, <1>12, <1>13 DEF IInv

-----------------------------------------------------------------------------
(* The inductive invariant *)

LEMMA InitIInv == Init => IInv
  <1> SUFFICES ASSUME Init PROVE IInv
    OBVIOUS
  <1> USE DEF Init
  <1>1. TypeOK
    <2>1. last \in 0..MaxProducts /\ faults \in 0..MaxFaults
      BY IdentityAssumption
    <2>2. row \in [Products -> [Fields -> Values]]
      BY NoRowIsRow DEF Rows
    <2>3. QED
      BY <2>1, <2>2 DEF TypeOK, Placements
  <1>2. GoneInv /\ EvidenceInv /\ BarcodesDistinct /\ CatalogAgrees /\ EventsFollowOffers
    BY DEF GoneInv, EvidenceInv, BarcodesDistinct, CatalogAgrees, EventsFollowOffers
  <1>3. QED
    BY <1>1, <1>2 DEF IInv

LEMMA IInvNext == IInv /\ [Next]_vars => IInv'
  <1> SUFFICES ASSUME IInv, [Next]_vars PROVE IInv'
    OBVIOUS
  <1>1. CASE ProcessListing
    <2>1. PICK g \in Pages, l \in Listings : Process(g, l, "written")
      BY <1>1 DEF ProcessListing
    <2>2. faults' \in 0..MaxFaults
      BY <1>1 DEF ProcessListing, IInv, TypeOK
    <2>3. QED
      BY <2>1, <2>2, ProcessInv DEF Reached
  <1>2. CASE ListingBreaksOff
    <2>1. PICK g \in Pages, l \in Listings, reached \in {"matched", "halfway", "linked"} :
              Process(g, l, reached)
      BY <1>2 DEF ListingBreaksOff
    <2>2. faults' \in 0..MaxFaults
      BY <1>2, IdentityAssumption DEF ListingBreaksOff, IInv, TypeOK
    <2>3. QED
      BY <2>1, <2>2, ProcessInv DEF Reached
  <1>3. CASE Restart
    BY <1>3, RestartInv
  <1>4. CASE SplitProduct
    BY <1>4, SplitInv
  <1>5. CASE MergeProducts
    BY <1>5, MergeInv
  <1>6. CASE UNCHANGED vars
    BY <1>6 DEF vars, rowVars, catalogVars, history, IInv, TypeOK, GoneInv, EvidenceInv, Agreed,
       BarcodesDistinct, CatalogAgrees, EventsFollowOffers
  <1>7. QED
    BY <1>1, <1>2, <1>3, <1>4, <1>5, <1>6 DEF Next

LEMMA InductiveInvariant == Spec => []IInv
  BY InitIInv, IInvNext, PTL DEF Spec

-----------------------------------------------------------------------------
(* Theorems *)

\* Every reachable state of products, offers, events and catalog links is well
\* typed; no offer or event names a product that was merged away, and nothing is
\* left of one (mergeProducts deletes the row after it moved what referred to it).
THEOREM TypeCorrect == Spec => []TypeOK
  <1>1. IInv => TypeOK
    BY DEF IInv
  <1>2. QED
    BY InductiveInvariant, <1>1, PTL

\* No two products ever carry one barcode, through matches that fill in a barcode,
\* inserts, merges and splits, broken off wherever, although the schema has no
\* unique index on it and findOrCreateProduct takes the first row db.get returns.
THEOREM BarcodesStayDistinct == Spec => []BarcodesDistinct
  <1>1. IInv => BarcodesDistinct
    BY DEF IInv
  <1>2. QED
    BY InductiveInvariant, <1>1, PTL

\* Listings the crawl joined by SKU or model never conflict in SKU, model or brand,
\* nor in the variant where no SKU told them apart: a row says what each of them
\* said, and what it says is filled in but never overwritten.
THEOREM JoinsStayCompatible == Spec => []AutomaticJoinsAgree
  <1>1. EvidenceInv => AutomaticJoinsAgree
    <2> SUFFICES ASSUME EvidenceInv, NEW g \in Pages, NEW h \in Pages, product[g] = product[h],
                        {placed[g], placed[h]} \subseteq {"new", "sku", "model"}
                 PROVE  /\ \A f \in {"sku", "model", "brand"} :
                              Compatible(evidence[g][f], evidence[h][f])
                        /\ "sku" \notin {placed[g], placed[h]} =>
                              Compatible(evidence[g].variant, evidence[h].variant)
      BY DEF AutomaticJoinsAgree
    <2>1. \A f \in Agreed(g) \cap Agreed(h) : Compatible(evidence[g][f], evidence[h][f])
      BY DEF EvidenceInv, Compatible
    <2>2. {"sku", "model", "brand"} \subseteq Agreed(g) \cap Agreed(h)
      BY DEF Agreed
    <2>3. "sku" \notin {placed[g], placed[h]} => "variant" \in Agreed(g) \cap Agreed(h)
      BY DEF Agreed
    <2>4. QED
      BY <2>1, <2>2, <2>3
  <1>2. IInv => AutomaticJoinsAgree
    BY <1>1 DEF IInv
  <1>3. QED
    BY InductiveInvariant, <1>2, PTL

\* products.catalog_product_id and product_catalog_links name one entry, whatever
\* was linked, repaired at a start, merged and split, unless a listing of the
\* product was broken off between the two and none has been written since.
THEOREM CatalogStaysInStep == Spec => []CatalogAgrees
  <1>1. IInv => CatalogAgrees
    BY DEF IInv
  <1>2. QED
    BY InductiveInvariant, <1>1, PTL

\* Every event is about the product its offer belongs to at that time, however
\* often the user has merged and split since it was made.
THEOREM EventsStayWithOffers == Spec => []EventsFollowOffers
  <1>1. IInv => EventsFollowOffers
    BY DEF IInv
  <1>2. QED
    BY InductiveInvariant, <1>1, PTL

\* A listing never has two products to choose from: which of several rows a query
\* of findOrCreateProduct returns first does not matter.
THEOREM OneOwner ==
    Spec => [](\A g \in Pages, l \in Listings :
                  \A p, q \in Owner(g, l).products : p = q)
  <1>1. ASSUME IInv, NEW g \in Pages, NEW l \in Listings,
               NEW p \in Owner(g, l).products, NEW q \in Owner(g, l).products
        PROVE  p = q
    <2>1. IsFiniteSet(known) /\ BarcodesDistinct
      BY <1>1, ProductsAreIds DEF IInv
    <2>2. CASE product[g] # NoProduct
      BY <1>1, <2>2 DEF Owner
    <2>3. CASE p \in ByBarcode(l) /\ q \in ByBarcode(l)
      BY <2>1, <2>3 DEF ByBarcode, BarcodesDistinct
    <2>4. CASE p \in BySku(l) /\ q \in BySku(l)
      <3> DEFINE S == {r \in known : /\ l.sku # None
                                     /\ row[r].sku = l.sku
                                     /\ Compatible(row[r].model, l.model)
                                     /\ Compatible(row[r].brand, l.brand)}
      <3>1. IsFiniteSet(S)
        BY <2>1, FS_Subset
      <3>2. p \in Only(S) /\ q \in Only(S)
        BY <2>4 DEF BySku
      <3>3. QED
        BY <3>1, <3>2, OnlyUnique
    <2>5. CASE p \in ByModel(l) /\ q \in ByModel(l)
      <3> DEFINE S == {r \in SameModel(l) : Compatible(row[r].brand, l.brand)}
      <3>1. S \in SUBSET known
        BY DEF SameModel
      <3>2. IsFiniteSet(S)
        BY <2>1, <3>1, FS_Subset
      <3>3. p \in Only(S) /\ q \in Only(S)
        BY <2>5 DEF ByModel
      <3> HIDE DEF S
      <3>4. QED
        BY <3>2, <3>3, OnlyUnique
    <2>6. QED
      BY <1>1, <2>2, <2>3, <2>4, <2>5 DEF Owner, Match
  <1>2. IInv => \A g \in Pages, l \in Listings : \A p, q \in Owner(g, l).products : p = q
    BY <1>1
  <1>3. QED
    BY InductiveInvariant, <1>2, PTL

\* What identifies a product is filled in but never changed, by any crawl, merge or
\* split, while its row is there.
IdentityKept ==
    [][\A p \in known \cap known' : \A f \in Fields :
          row[p][f] # None => row'[p][f] = row[p][f]]_vars

\* findOrCreateProduct, linkProductToCatalog, mergeProducts and splitProduct fill in
\* identifying columns (COALESCE) and overwrite none.
THEOREM IdentityIsKept == Spec => IdentityKept
  <1> DEFINE Kept(p) == \A f \in Fields : row[p][f] # None => row'[p][f] = row[p][f]
  <1>1. ASSUME IInv, [Next]_vars, NEW p \in known \cap known' PROVE Kept(p)
    <2>1. TypeOK /\ p \in Products
      BY <1>1, ProductsAreIds DEF IInv
    <2>2. ASSUME NEW g \in Pages, NEW l \in Listings, NEW reached \in Reached,
                 Process(g, l, reached)
          PROVE  Kept(p)
      <3>1. PICK q \in Products, by \in Placements :
                Written(g, l, q, by) /\ Write(g, l, q, by, reached)
        BY <2>1, <2>2, ProcessCases
      <3>2. CASE p # q
        BY <2>1, <3>1, <3>2, WrittenRow
      <3>3. CASE p = q
        <4>1. by # "new" \/ product[g] # NoProduct
          BY <1>1, <2>1, <3>1, <3>3, ProductsAreIds DEF Written, Matches
        <4>2. QED
          BY <2>1, <3>1, <3>3, <4>1, WrittenRow
      <3>4. QED
        BY <3>2, <3>3
    <2>3. CASE SplitProduct
      <3>1. last' \notin known /\ \E r : row' = [row EXCEPT ![last'] = r]
        BY <2>1, <2>3, ProductsAreIds DEF SplitProduct
      <3>2. QED
        BY <1>1, <2>1, <3>1 DEF TypeOK
    <2>4. CASE MergeProducts
      <3>1. PICK s \in known, t \in known :
                /\ s # t /\ known' = known \ {s}
                /\ row' = [row EXCEPT ![t] = Enriched(@, row[s]), ![s] = NoRow]
        BY <2>4 DEF MergeProducts
      <3>2. row[t] \in Rows /\ row[s] \in Rows /\ t \in Products /\ s \in Products
        BY <2>1, <3>1, ProductsAreIds DEF TypeOK, Rows
      <3>3. p # s /\ (p = t => row'[p] = Enriched(row[t], row[s])) /\ (p # t => row'[p] = row[p])
        BY <1>1, <2>1, <3>1, <3>2 DEF TypeOK
      <3>4. QED
        BY <3>2, <3>3, EnrichedRow
    <2>5. CASE UNCHANGED row
      BY <2>5
    <2>6. QED
      BY <1>1, <2>2, <2>3, <2>4, <2>5 DEF Next, ProcessListing, ListingBreaksOff, Restart, Reached,
         vars, rowVars
  <1>2. IInv /\ [Next]_vars => [\A p \in known \cap known' : Kept(p)]_vars
    BY <1>1
  <1>3. QED
    BY InductiveInvariant, <1>2, PTL DEF IdentityKept, Spec
\* Pages that have a product are only brought together when one of their products is
\* merged away, and only taken apart when a new product is split off.
UserDecides ==
    [][\A g, h \in Pages : NoProduct \notin {product[g], product[h]} =>
          /\ product[g] # product[h] /\ product'[g] = product'[h]
             => {product[g], product[h]} \ known' # {}
          /\ product[g] = product[h] /\ product'[g] # product'[h]
             => {product'[g], product'[h]} \ known # {}]_vars

\* What the user has put together or split stays so: no crawl of either page, repair
\* at a start, merge or split of other products undoes it (processListing keeps the
\* product of an offer it finds by its page).
THEOREM UserHasTheLastWord == Spec => UserDecides
  <1> DEFINE Stands(g, h) ==
                /\ product[g] # product[h] /\ product'[g] = product'[h]
                   => {product[g], product[h]} \ known' # {}
                /\ product[g] = product[h] /\ product'[g] # product'[h]
                   => {product'[g], product'[h]} \ known # {}
  <1>1. ASSUME TypeOK, [Next]_vars, NEW g \in Pages, NEW h \in Pages,
               NoProduct \notin {product[g], product[h]}
        PROVE  Stands(g, h)
    <2>1. CASE product'[g] = product[g] /\ product'[h] = product[h]
      BY <2>1
    <2>2. ASSUME NEW q \in Pages, NEW l \in Listings, NEW reached \in Reached,
                 Process(q, l, reached)
          PROVE  product'[g] = product[g] /\ product'[h] = product[h]
      <3>1. PICK p \in Products, by \in Placements :
                Written(q, l, p, by) /\ Write(q, l, p, by, reached)
        BY <1>1, <2>2, ProcessCases
      <3>2. \/ product' = product
            \/ product[q] = NoProduct /\ product' = [product EXCEPT ![q] = p]
        BY <3>1 DEF Write
      <3>3. QED
        BY <1>1, <3>2 DEF TypeOK
    <2>3. CASE SplitProduct
      <3>1. PICK p \in known : \E moving \in (SUBSET OffersOf(p)) \ {{}, OffersOf(p)} :
                MoveOffers(moving, last') /\ last' = last + 1
        BY <2>3 DEF SplitProduct
      <3>2. PICK moving \in (SUBSET OffersOf(p)) \ {{}, OffersOf(p)} :
                MoveOffers(moving, last') /\ last' = last + 1
        BY <3>1
      <3>3. last' \notin known /\ \A q \in moving : product[q] = p
        BY <1>1, <3>2, ProductsAreIds DEF OffersOf
      <3>4. \A q \in Pages : product'[q] = IF q \in moving THEN last' ELSE product[q]
        BY <3>2 DEF MoveOffers
      <3>5. product[g] \in known /\ product[h] \in known
        BY <1>1 DEF TypeOK
      <3>6. QED
        BY <3>3, <3>4, <3>5
    <2>4. CASE MergeProducts
      <3>1. PICK s \in known, t \in known :
                s # t /\ known' = known \ {s} /\ product' = Reassigned(s, t)
        BY <2>4 DEF MergeProducts
      <3>2. \A q \in Pages : product'[q] = IF product[q] = s THEN t ELSE product[q]
        BY <3>1 DEF Reassigned
      <3>3. QED
        BY <3>1, <3>2
    <2>5. CASE Restart \/ UNCHANGED vars
      BY <2>1, <2>5 DEF Restart, vars
    <2>6. QED
      BY <1>1, <2>1, <2>2, <2>3, <2>4, <2>5 DEF Next, ProcessListing, ListingBreaksOff, Reached
  <1>2. TypeOK /\ [Next]_vars =>
            [\A g, h \in Pages : NoProduct \notin {product[g], product[h]} => Stands(g, h)]_vars
    BY <1>1
  <1>3. QED
    BY TypeCorrect, <1>2, PTL DEF UserDecides, Spec
=============================================================================
