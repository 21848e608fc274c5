---------------------------- MODULE MCAttributes ----------------------------
(* The attributes of the default mapping that differ in how they are sent:  *)
(* two for one list, a list of which one value is kept, a name, a number    *)
(* that is sent once, and one that belongs to the connector.                *)
EXTENDS Attributes

MCContents ==
  [mailPrimaryAddress |-> {<<"x">>, <<"y">>},
   mailAlternativeAddress |-> {<<>>, <<"x">>, <<"x", "y">>},
   displayName |-> {<<>>, <<"x">>, <<"y">>},
   telephoneNumber |-> {<<>>, <<"x", "y">>},
   mobile |-> {<<>>, <<"x">>},
   st |-> {<<>>, <<"x">>},
   userexpiry |-> {<<"x">>},
   UniventionOffice365Data |-> {<<"x">>}]
MCOrder == <<"displayName", "mailAlternativeAddress", "mailPrimaryAddress", "mobile",
             "st", "telephoneNumber", "UniventionOffice365Data">>
MCMapTo ==
  [displayName |-> "displayName", mailAlternativeAddress |-> "otherMails",
   mailPrimaryAddress |-> "otherMails", mobile |-> "mobilePhone",
   st |-> "usageLocation", telephoneNumber |-> "businessPhones",
   UniventionOffice365Data |-> "city"]
MCAttr == DOMAIN MCContents
MCField == {"userPrincipalName", "displayName", "usageLocation", "otherMails",
            "mobilePhone", "businessPhones", "city"}

Of(n, a, t, s) == [never |-> n, anonymize |-> a, static |-> t, sync |-> s]
\* the default; an attribute in every list; lists that overlap
MCConfig ==
  {Of({}, {}, {}, MCAttr),
   Of({"displayName", "mobile"}, {"displayName", "mailPrimaryAddress"},
      {"mailPrimaryAddress", "telephoneNumber"}, MCAttr),
   Of({"mailAlternativeAddress"}, {"telephoneNumber"}, {"displayName", "userexpiry"},
      {"mailPrimaryAddress", "mailAlternativeAddress", "displayName"})}
=============================================================================
