---------------------------- MODULE MCMigration ----------------------------
EXTENDS Migration
MCBlockLen == <<1, 2>>
=============================================================================
