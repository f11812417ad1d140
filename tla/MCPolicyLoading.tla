-------------------------- MODULE MCPolicyLoading ---------------------------
(***************************************************************************)
(* Instance of PolicyLoading for TLC: a product of two domains with a file *)
(* each, documents that name a domain or a product twice, and the ways     *)
(* products.json and a domain file can be wrong.                           *)
(***************************************************************************)
EXTENDS PolicyLoading

CONSTANTS f1, f2

MCFile == {f1, f2}
MCAddress == 1..9

Entry(d, f, ok) == [name |-> d, settings |-> ok, file |-> f]
Product(p, domains) == [name |-> p, object |-> TRUE, domains |-> domains]
BadProduct == [name |-> "q", object |-> FALSE, domains |-> <<>>]
Products(list) == [object |-> TRUE, products |-> list]

MCProductsConfs ==
    { NoDocument,
      Products(<<Product("p", <<Entry("d", f1, TRUE), Entry("e", f2, TRUE)>>)>>),
      Products(<<Product("p", <<Entry("d", f1, FALSE), Entry("e", f2, TRUE)>>),
                 BadProduct>>),
      Products(<<Product("p", <<Entry("d", f1, TRUE), Entry("d", f2, TRUE)>>)>>),
      Products(<<Product("p", <<Entry("d", f1, TRUE)>>),
                 Product("p", <<Entry("e", f2, TRUE)>>)>>) }

P(id, ok, i) == [id |-> id, valid |-> ok, intent |-> i]

MCDomainConfs ==
    { [array |-> FALSE, policies |-> <<>>],
      [array |-> TRUE,
       policies |-> <<P(1, TRUE, "i"), P(2, FALSE, "i"), P(3, TRUE, "j"),
                      P(4, TRUE, "i")>>] }
=============================================================================
