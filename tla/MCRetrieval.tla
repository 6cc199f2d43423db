----------------------------- MODULE MCRetrieval -----------------------------
(***************************************************************************)
(* A small instance of Retrieval: four wordings of sneakers, with the      *)
(* similarities the program computes for them.                             *)
(*   bl  black leather sneaker      bls black leather sneakers             *)
(*   wls white leather sneakers     lsb leather sneakers black             *)
(***************************************************************************)
EXTENDS Retrieval

MCTokens == [bl  |-> {"black", "leather", "sneaker"},
             bls |-> {"black", "leather", "sneakers"},
             wls |-> {"white", "leather", "sneakers"},
             lsb |-> {"leather", "sneakers", "black"}]

MCText == DOMAIN MCTokens

MCLexical ==
    [bl  |-> [bl |-> 1000000, bls |-> 976744, wls |-> 744186, lsb |-> 697674],
     bls |-> [bl |-> 976744, bls |-> 1000000, wls |-> 772727, lsb |-> 727273],
     wls |-> [bl |-> 744186, bls |-> 772727, wls |-> 1000000, lsb |-> 727273],
     lsb |-> [bl |-> 697674, bls |-> 727273, wls |-> 727273, lsb |-> 1000000]]

MCTrigram ==
    [bl  |-> [bl |-> 1000000, bls |-> 840000, wls |-> 437500, lsb |-> 703704],
     bls |-> [bl |-> 840000, bls |-> 1000000, wls |-> 548387, lsb |-> 777778],
     wls |-> [bl |-> 437500, bls |-> 548387, wls |-> 1000000, lsb |-> 500000],
     lsb |-> [bl |-> 703704, bls |-> 777778, wls |-> 500000, lsb |-> 1000000]]

MCTerms ==
    [color         |-> <<<<"black", "black">>, <<"white", "white">>>>,
     material      |-> <<<<"leather", "leather">>>>,
     category_hint |-> <<<<"sneaker", "footwear">>, <<"sneakers", "footwear">>>>]

\* A black sneaker, a white one, and accessories that say nothing of their colour.
MCAttributes == <<[color |-> "black", category_hint |-> "footwear"],
                  [color |-> "white", category_hint |-> "footwear"],
                  [size |-> "m"]>>

MCCategory == <<"footwear", "footwear", "components">>

\* A reranker that knows one product.
MCSemantic == [t \in MCText |-> IF t = "lsb" THEN [p \in {3} |-> 900000] ELSE [p \in {} |-> 0]]

\* The model repeats the first product, with flawless wording or not, or invents a size.
MCAnswers ==
    {[repeats |-> {1}, flaws |-> {}, attributes |-> [color |-> "black"]],
     [repeats |-> {1}, flaws |-> {"url"}, attributes |-> [color |-> "black"]],
     [repeats |-> {2}, flaws |-> {}, attributes |-> [size |-> "xl"]]}
=============================================================================
