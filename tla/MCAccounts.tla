----------------------------- MODULE MCAccounts -----------------------------
\* Two users; passwords with the characters that the parser treats apart.
EXTENDS Accounts, TLC

MCUsers == {<<"a">>, <<"b">>}
MCPasswords == {<<>>, <<"x", "backslash">>, <<"space", "quote">>}
MCTag == <<"1">>
MCRegister == <<"R">>
MCLogin == <<"L">>

AlikeSessions == Permutations(Sessions)
=============================================================================
