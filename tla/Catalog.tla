------------------------------- MODULE Catalog -------------------------------
(***************************************************************************)
(* What the new-product pipeline promises about the tables it fills,       *)
(* whatever number of workers fill them: a product row is created once,    *)
(* its gallery and its brand and category links are written once, and      *)
(* nothing refers to a row that does not exist.                            *)
(*                                                                         *)
(* The tables are those of takealot/model: product, product_image, price,  *)
(* brand and category (here Entity), product_brand_link and                *)
(* product_category_link (here link).  No locks, queues or workers appear: *)
(* ProductIngest is shown to implement this module.                        *)
(***************************************************************************)
EXTENDS Naturals

CONSTANTS
    Msg,            \* new-product tasks
    Plid,           \* Takealot product-line ids
    Entity,         \* brand and category names
    Zero,           \* the id of a row that was never inserted
    PlidOf,         \* the PLID a task carries
    EntitiesOf,     \* the brand and the categories of a product
    GallerySize     \* images of a product

VARIABLES
    product,        \* PLIDs with a product row
    entity,         \* names with a brand or category row
    images,         \* rows of product_image for each PLID
    priced,         \* tasks that inserted a price row
    link,           \* how often a link row <<product, entity>> is stored
    digested        \* ids published for the search index

cvars == <<product, entity, images, priced, link, digested>>

Row == (Plid \cup {Zero}) \X (Entity \cup {Zero})

Init ==
    /\ product = {}
    /\ entity = {}
    /\ images = [p \in Plid |-> 0]
    /\ priced = {}
    /\ link = [r \in Row |-> 0]
    /\ digested = {}

AddProduct(p) ==
    /\ p \notin product
    /\ product' = product \cup {p}
    /\ UNCHANGED <<entity, images, priced, link, digested>>

AddImage(p) ==
    /\ p \in product
    /\ images[p] < GallerySize
    /\ images' = [images EXCEPT ![p] = @ + 1]
    /\ UNCHANGED <<product, entity, priced, link, digested>>

AddPrice(m) ==
    /\ PlidOf[m] \in product
    /\ priced' = priced \cup {m}
    /\ UNCHANGED <<product, entity, images, link, digested>>

AddEntity(e) ==
    /\ e \notin entity
    /\ entity' = entity \cup {e}
    /\ UNCHANGED <<product, images, priced, link, digested>>

\* A link joins two existing rows and is stored once.
AddLink(p, e) ==
    /\ p \in product
    /\ e \in EntitiesOf[p] \cap entity
    /\ link[<<p, e>>] = 0
    /\ link' = [link EXCEPT ![<<p, e>>] = 1]
    /\ UNCHANGED <<product, entity, images, priced, digested>>

Digest(x) ==
    /\ x \in product \cup entity
    /\ digested' = digested \cup {x}
    /\ UNCHANGED <<product, entity, images, priced, link>>

Next ==
    \/ \E p \in Plid : AddProduct(p) \/ AddImage(p)
    \/ \E m \in Msg : AddPrice(m)
    \/ \E e \in Entity : AddEntity(e)
    \/ \E p \in Plid, e \in Entity : AddLink(p, e)
    \/ \E x \in Plid \cup Entity : Digest(x)

Spec == Init /\ [][Next]_cvars
==============================================================================
